---- MODULE Spec2Model ----
(***************************************************************************)
(* Model of the food-delivery support evaluation core:                     *)
(*   database.py   the order store (one SQLite table keyed by order_id)    *)
(*   simulator.py  scenario assignment and order creation                  *)
(*   tools.py      OrderTrackerTool and IssueResolverTool                  *)
(*                                                                         *)
(* A Python str is a sequence of one-character strings, so that strip(),   *)
(* upper(), lower() and the "in" substring test are computed, not assumed. *)
(* A fixed text of the code that is only ever concatenated into an output  *)
(* is written as one element holding that text.                            *)
(***************************************************************************)
EXTENDS Integers, Sequences, FiniteSets, TLC

(* ------------------------------ str ------------------------------------ *)

\* Python's None; no str equals it, since every str element is one piece of text
\* and "<None>" is never written as a piece of a str.
NoneVal == <<"<None>">>

LowerAlpha == <<"a", "b", "c", "d", "e", "f", "g", "h", "i", "j", "k", "l", "m", "n", "o", "p", "q", "r", "s", "t", "u", "v", "w", "x", "y", "z">>
UpperAlpha == <<"A", "B", "C", "D", "E", "F", "G", "H", "I", "J", "K", "L", "M", "N", "O", "P", "Q", "R", "S", "T", "U", "V", "W", "X", "Y", "Z">>
Whitespace == {" ", "\t", "\n", "\r"}

AlphaIndex(alpha, c) == CHOOSE i \in 1..Len(alpha) : alpha[i] = c

\* str.upper(), one character
UpperChar(c) ==
    IF \E i \in 1..Len(LowerAlpha) : LowerAlpha[i] = c
    THEN UpperAlpha[AlphaIndex(LowerAlpha, c)] ELSE c

\* str.lower(), one character
LowerChar(c) ==
    IF \E i \in 1..Len(UpperAlpha) : UpperAlpha[i] = c
    THEN LowerAlpha[AlphaIndex(UpperAlpha, c)] ELSE c

upper(s) == [i \in 1..Len(s) |-> UpperChar(s[i])]

lower(s) == [i \in 1..Len(s) |-> LowerChar(s[i])]

\* str.strip(): drops the leading and the trailing whitespace
strip(s) ==
    LET keep == {i \in 1..Len(s) : s[i] \notin Whitespace}
        Min(S) == CHOOSE x \in S : \A y \in S : x <= y
        Max(S) == CHOOSE x \in S : \A y \in S : x >= y
    IN  IF keep = {} THEN <<>> ELSE SubSeq(s, Min(keep), Max(keep))

\* Python's "sub in s" on two str
Contains(sub, s) ==
    \/ sub = <<>>
    \/ \E i \in 0..(Len(s) - Len(sub)) :
          s[i + 1] = sub[1] /\ SubSeq(s, i + 1, i + Len(sub)) = sub

\* Python truthiness of an optional str: None and "" are falsy
Truthy(s) == s # NoneVal /\ s # <<>>

\* dict.get(key, default) on a dict modelled as a function
DictGet(d, key, default) == IF key \in DOMAIN d THEN d[key] ELSE default

EmptyDict == [k \in {} |-> NoneVal]

(* ----------------------- text constants of the code --------------------- *)

\* scenario labels: the keys of alias_map and KEYWORD_MAP
LATE == <<"L", "A", "T", "E">>
QUALITY == <<"Q", "U", "A", "L", "I", "T", "Y">>
MISS == <<"M", "I", "S", "S">>
WRONG == <<"W", "R", "O", "N", "G">>
PAYMENT == <<"P", "A", "Y", "M", "E", "N", "T">>
ADDRESS == <<"A", "D", "D", "R", "E", "S", "S">>
COLD == <<"C", "O", "L", "D">>
TRACK == <<"T", "R", "A", "C", "K">>

\* internal issue types
late_delivery == <<"l", "a", "t", "e", "_", "d", "e", "l", "i", "v", "e", "r", "y">>
poor_quality == <<"p", "o", "o", "r", "_", "q", "u", "a", "l", "i", "t", "y">>
missing_items_type == <<"m", "i", "s", "s", "i", "n", "g", "_", "i", "t", "e", "m", "s">>
wrong_order == <<"w", "r", "o", "n", "g", "_", "o", "r", "d", "e", "r">>
payment_issue == <<"p", "a", "y", "m", "e", "n", "t", "_", "i", "s", "s", "u", "e">>
address_error == <<"a", "d", "d", "r", "e", "s", "s", "_", "e", "r", "r", "o", "r">>
cold_food == <<"c", "o", "l", "d", "_", "f", "o", "o", "d">>

\* substrings looked for in details.lower()
kw_confirm == <<"c", "o", "n", "f", "i", "r", "m">>
kw_reship == <<"r", "e", "s", "h", "i", "p">>
kw_replacement == <<"r", "e", "p", "l", "a", "c", "e", "m", "e", "n", "t">>
kw_refund == <<"r", "e", "f", "u", "n", "d">>

status_unknown == <<"u", "n", "k", "n", "o", "w", "n">>

(* ------------------------------ database.py ----------------------------- *)

\* json.dumps of a list of item names
JsonDumps(items) ==
    LET RECURSIVE Join(_)
        Join(xs) ==
            IF xs = <<>> THEN <<>>
            ELSE <<"\"">> \o Head(xs) \o <<"\"">>
                 \o (IF Len(xs) > 1 THEN <<",", " ">> ELSE <<>>) \o Join(Tail(xs))
    IN  <<"[">> \o Join(items) \o <<"]">>

\* INSERT INTO orders ... : the row create_order builds from a template
OrderRow(issue_label, template_data) ==
    [status |-> DictGet(template_data, "status", status_unknown),
     items |-> JsonDumps(DictGet(template_data, "items", <<>>)),
     eta |-> DictGet(template_data, "eta", NoneVal),
     issue_label |-> issue_label,
     resolution_note |-> NoneVal]

\* mutant of create_order: INSERT OR REPLACE, a row under the id is replaced
create_order_replace(store, order_id, issue_label, template_data) ==
    [raised |-> FALSE,
     store |-> [k \in DOMAIN store \cup {order_id} |->
                   IF k = order_id THEN OrderRow(issue_label, template_data)
                   ELSE store[k]]]

\* create_order: order_id is the PRIMARY KEY, so the INSERT of an id already in
\* the table raises sqlite3.IntegrityError and stores nothing.
create_order(store, order_id, issue_label, template_data) ==
    IF order_id \in DOMAIN store
    THEN [raised |-> TRUE, store |-> store]
    ELSE [raised |-> FALSE,
          store |-> [k \in DOMAIN store \cup {order_id} |->
                        IF k = order_id THEN OrderRow(issue_label, template_data)
                        ELSE store[k]]]

\* get_order: the row SELECT ... WHERE order_id = ? finds, or None
get_order(store, order_id) ==
    IF order_id \in DOMAIN store
    THEN [found |-> TRUE, row |-> store[order_id]]
    ELSE [found |-> FALSE]

\* mutant of update_order_resolution: the UPDATE has no WHERE clause
update_order_resolution_all(store, order_id, note) ==
    [k \in DOMAIN store |-> [store[k] EXCEPT !.resolution_note = note]]

\* mutant of update_order_resolution: the note is appended to the one stored
update_order_resolution_append(store, order_id, note) ==
    [k \in DOMAIN store |->
        IF k = order_id /\ store[k].resolution_note # NoneVal
        THEN [store[k] EXCEPT !.resolution_note = @ \o note]
        ELSE IF k = order_id THEN [store[k] EXCEPT !.resolution_note = note]
        ELSE store[k]]

\* update_order_resolution: UPDATE ... WHERE order_id = ? ; no row, no change
update_order_resolution(store, order_id, note) ==
    [k \in DOMAIN store |->
        IF k = order_id THEN [store[k] EXCEPT !.resolution_note = note]
        ELSE store[k]]

(* ------------------------------ simulator.py ---------------------------- *)

\* Simulator.KEYWORD_MAP, in the dict's order
KEYWORD_MAP ==
    << <<TRACK, {<<"t", "r", "a", "c", "k">>, <<"w", "h", "e", "r", "e">>, <<"s", "t", "a", "t", "u", "s">>}>>,
       <<LATE, {<<"l", "a", "t", "e">>, <<"d", "e", "l", "a", "y", "e", "d">>}>>,
       <<MISS, {<<"m", "i", "s", "s", "i", "n", "g">>, <<"d", "i", "d", "n", "'", "t", " ", "g", "e", "t">>, <<"d", "i", "d", " ", "n", "o", "t", " ", "g", "e", "t">>}>>,
       <<WRONG, {<<"w", "r", "o", "n", "g">>, <<"n", "o", "t", " ", "w", "h", "a", "t", " ", "i", " ", "o", "r", "d", "e", "r", "e", "d">>}>>,
       <<PAYMENT, {<<"p", "a", "y", "m", "e", "n", "t">>, <<"c", "h", "a", "r", "g", "e">>, <<"b", "i", "l", "l", "i", "n", "g">>}>>,
       <<ADDRESS, {<<"a", "d", "d", "r", "e", "s", "s">>}>>,
       <<COLD, {<<"c", "o", "l", "d">>, <<"n", "o", "t", " ", "h", "o", "t">>}>>,
       <<QUALITY, {<<"b", "a", "d">>, <<"s", "t", "a", "l", "e">>, <<"q", "u", "a", "l", "i", "t", "y">>}>> >>

\* The templates scenarios.yaml holds, in the file's order: label, then the
\* template's status, items and eta (an absent key is absent from the dict).
TemplateList ==
    << <<LATE, [status |-> <<"Delayed">>, items |-> << <<"Margherita Pizza">> >>,
                eta |-> <<"20 minutes">>]>>,
       <<MISS, [status |-> <<"Delivered">>, items |-> << <<"Chicken Burger">>, <<"Fries">> >>]>> >>

TemplateLabels == {TemplateList[i][1] : i \in 1..Len(TemplateList)}

\* self.scenario_templates
scenario_templates ==
    [l \in TemplateLabels |->
        TemplateList[CHOOSE i \in 1..Len(TemplateList) : TemplateList[i][1] = l][2]]

\* _generate_order_id: f"ORD-{n}" with n the draw of random.randint(100000, 999999)
RECURSIVE Decimal(_)
Decimal(n) ==
    LET digit == <<"0", "1", "2", "3", "4", "5", "6", "7", "8", "9">>
    IN  IF n < 10 THEN <<digit[n + 1]>>
        ELSE Decimal(n \div 10) \o <<digit[(n % 10) + 1]>>

OrderIdOf(n) == <<"O", "R", "D", "-">> \o Decimal(n)

\* the first label of KEYWORD_MAP one of whose keywords is in inp_lower, or label
InferLabel(user_input, label) ==
    LET inp_lower == lower(user_input)
        hits == {i \in 1..Len(KEYWORD_MAP) :
                    \E kw \in KEYWORD_MAP[i][2] : Contains(kw, inp_lower)}
    IN  IF hits = {} THEN label
        ELSE KEYWORD_MAP[CHOOSE i \in hits : \A j \in hits : i <= j][1]

\* the label assign_and_create_order settles on
AssignLabel(user_input, label) ==
    LET inferred == IF ~Truthy(label) /\ Truthy(user_input)
                    THEN InferLabel(user_input, label) ELSE label
    IN  IF ~Truthy(inferred)
        THEN (IF Len(TemplateList) > 0 THEN TemplateList[1][1] ELSE QUALITY)
        ELSE inferred

\* the template it hands to create_order: {} when the label has none
TemplateFor(label) ==
    IF label \in DOMAIN scenario_templates /\ DOMAIN scenario_templates[label] # {}
    THEN scenario_templates[label] ELSE EmptyDict

(* -------------------------------- tools.py ------------------------------ *)

\* mutant of OrderTrackerRun: the resolution note is not looked at
OrderTrackerRunNoNote(store, order_id) ==
    LET got == get_order(store, order_id)
        order == got.row
        details == <<"Order ">> \o order_id \o <<" status is '">> \o order.status \o <<"'.">>
    IN  IF ~got.found
        THEN <<"Error: Order ID ">> \o order_id \o <<" not found.">>
        ELSE IF Truthy(order.eta)
        THEN details \o <<" ETA: ">> \o order.eta \o <<".">>
        ELSE details

\* mutant of OrderTrackerRun: a missing order is reported as an order of
\* unknown status
OrderTrackerRunNoCheck(store, order_id) ==
    LET got == get_order(store, order_id)
        order == IF got.found THEN got.row
                 ELSE [status |-> status_unknown, eta |-> NoneVal,
                       resolution_note |-> NoneVal]
        details == <<"Order ">> \o order_id \o <<" status is '">> \o order.status \o <<"'.">>
    IN  IF Truthy(order.resolution_note)
        THEN <<"Status for order ">> \o order_id \o <<" is '">> \o order.status
             \o <<"'. Issue already resolved: ">> \o order.resolution_note
        ELSE IF Truthy(order.eta)
        THEN details \o <<" ETA: ">> \o order.eta \o <<".">>
        ELSE details

\* OrderTrackerTool._run
OrderTrackerRun(store, order_id) ==
    LET got == get_order(store, order_id)
        order == got.row
        details == <<"Order ">> \o order_id \o <<" status is '">> \o order.status \o <<"'.">>
    IN  IF ~got.found
        THEN <<"Error: Order ID ">> \o order_id \o <<" not found.">>
        ELSE IF Truthy(order.resolution_note)
        THEN <<"Status for order ">> \o order_id \o <<" is '">> \o order.status
             \o <<"'. Issue already resolved: ">> \o order.resolution_note
        ELSE IF Truthy(order.eta)
        THEN details \o <<" ETA: ">> \o order.eta \o <<".">>
        ELSE details

alias_map ==
    (LATE :> late_delivery) @@ (QUALITY :> poor_quality) @@ (MISS :> missing_items_type)
    @@ (WRONG :> wrong_order) @@ (PAYMENT :> payment_issue)
    @@ (ADDRESS :> address_error) @@ (COLD :> cold_food)

\* mutant of Normalize: the .upper() is left out
NormalizeNoUpper(issue_type) == strip(issue_type)

\* norm = (issue_type or "").strip().upper()
Normalize(issue_type) == upper(strip(issue_type))

\* mutant of HasConfirmation: the .lower() is left out
HasConfirmationCaseSensitive(details) == Contains(kw_confirm, details)

\* "confirm" not in (details or "").lower() is the negation of this
HasConfirmation(details) == Contains(kw_confirm, lower(details))

TrackRedirect ==
    <<"Tracking requests are handled by the order tracker tool. Please use 'order_tracker' to fetch status/ETA.">>

ConfirmationRequired ==
    <<"Confirmation required before issuing credits for late delivery. ",
      "Ask the user to confirm the delay first (Phase 1), then call 'issue_resolver' again ",
      "with details including 'confirmed' to proceed.">>

LateResolution ==
    <<"delivery credits have been added to your account for the inconvenience. ",
      "We apologize for the delay.">>

\* mutant of LateDelivery: the credits are issued without the confirmation
LateDeliveryUngated(details) == [kind |-> "resolve", text |-> LateResolution]

\* the late_delivery branch: credits are gated on the confirmation in details
LateDelivery(details) ==
    IF ~HasConfirmation(details)
    THEN [kind |-> "reject", text |-> ConfirmationRequired]
    ELSE [kind |-> "resolve", text |-> LateResolution]

\* The branch of IssueResolverTool._run taken: "redirect" and "reject" return
\* before the write; "resolve" carries the resolution text to persist.
Dispatch(issue_type, details, missing_items, refund_amount) ==
    LET norm == Normalize(issue_type)
        itype == IF norm \in DOMAIN alias_map THEN alias_map[norm] ELSE issue_type
        lowered == lower(details)
        Resolve(text) == [kind |-> "resolve", text |-> text]
    IN  IF norm \notin DOMAIN alias_map /\ norm = TRACK
        THEN [kind |-> "redirect", text |-> TrackRedirect]
        ELSE IF itype = missing_items_type
        THEN LET items_info == IF missing_items # <<>> THEN missing_items
                               ELSE IF details # <<>> THEN details
                               ELSE <<"the missing item">>
             IN  Resolve(<<"a partial refund for ">> \o items_info \o <<" has been issued.">>)
        ELSE IF itype = poor_quality
        THEN IF refund_amount # <<>>
             THEN Resolve(<<"a full refund of ">> \o refund_amount
                          \o <<" has been credited to your account for the quality issue.">>)
             ELSE Resolve(<<"a full refund for the affected item has been credited to your account.">>)
        ELSE IF itype = payment_issue
        THEN Resolve(<<"the billing issue has been escalated for immediate investigation. Our team will follow up via email within 24 hours.">>)
        ELSE IF itype = wrong_order
        THEN IF Contains(kw_reship, lowered) \/ Contains(kw_replacement, lowered)
             THEN Resolve(<<"a replacement for the correct order has been prepared and is on its way.">>)
             ELSE IF Contains(kw_refund, lowered)
             THEN Resolve(<<"a full refund has been issued for the incorrect order.">>)
             ELSE Resolve(<<"the issue has been logged and we will either reship the correct order or issue a refund shortly.">>)
        ELSE IF itype = address_error
        THEN Resolve(<<"the delivery address has been updated and the driver rerouted. The new ETA will appear in your app. Details: ">>
                     \o details)
        ELSE IF itype = cold_food
        THEN Resolve(<<"a formal service complaint has been logged with our delivery operations team to ensure this doesn't happen again. We take this feedback very seriously.">>)
        ELSE IF itype = late_delivery
        THEN LateDelivery(details)
        ELSE Resolve(<<"your issue ('">> \o details \o <<"') has been logged and escalated for review.">>)

(* ------------------------------ the inputs ------------------------------ *)

\* draws of random.randint(100000, 999999): both ends of the range
OrderDraws == {100000, 999999}

\* order ids a tool may be called with: the ids the draws generate, each of
\* them unknown to the store until an order is created under it
ToolOrderIds == {OrderIdOf(n) : n \in OrderDraws}

BOGUS == <<"B", "O", "G", "U", "S">>
LabelInputs == {NoneVal, <<>>, LATE, MISS, BOGUS}
UserInputs == {NoneVal, <<"R", "u", "n", "n", "i", "n", "g", " ", "L", "A", "T", "E">>}

IssueTypeInputs ==
    {late_delivery, LATE, <<" ", "l", "a", "t", "e", " ">>, <<"L", "A", "T", "E", "_", "D", "E", "L", "I", "V", "E", "R", "Y">>, TRACK, <<"t", "r", "a", "c", "k">>, poor_quality}
DetailsInputs == {<<>>, <<"C", "o", "n", "f", "i", "r", "m", "e", "d">>}

\* issue types for the alias table: every scenario label as written, in lower
\* case and padded with whitespace in mixed case, every internal category, the
\* tracking label, and types that are neither
Spellings(label) ==
    {label, lower(label),
     <<" ", "\t">> \o <<label[1]>> \o lower(SubSeq(label, 2, Len(label))) \o <<"\n">>}

AliasIssueTypes ==
    UNION {Spellings(label) : label \in DOMAIN alias_map}
    \cup {alias_map[label] : label \in DOMAIN alias_map}
    \cup {TRACK, <<" ", "t", "r", "a", "c", "k">>}
    \cup {<<>>, <<"r", "e", "f", "u", "n", "d">>,
          <<"l", "a", "t", "e", " ", "d", "e", "l", "i", "v", "e", "r", "y">>,
          <<"M", "I", "S", "S", "I", "N", "G">>}

\* the optional fields of a call: both left at their default "", or both given
OptionalInputs == {<<(<<>>), (<<>>)>>, <<<<"f", "r", "i", "e", "s">>, <<"$", "5">>>>}

\* The pure parts of the calls, tabulated over the inputs above as explicit
\* functions (evaluated once, not at every step).
RECURSIVE TabDispatch(_)
TabDispatch(S) ==
    IF S = {} THEN <<>>
    ELSE LET c == CHOOSE x \in S : TRUE
         IN  (c :> Dispatch(c[1], c[2], c[3], c[4])) @@ TabDispatch(S \ {c})

RECURSIVE TabIssueTypes(_)
TabIssueTypes(T) ==
    IF T = {} THEN <<>>
    ELSE LET t == CHOOSE x \in T : TRUE
         IN  TabDispatch({t} \X DetailsInputs \X {x[1] : x \in OptionalInputs}
                         \X {x[2] : x \in OptionalInputs})
             @@ TabIssueTypes(T \ {t})

DispatchOf == TabIssueTypes(IssueTypeInputs \cup AliasIssueTypes)

RECURSIVE TabAssignLabel(_)
TabAssignLabel(S) ==
    IF S = {} THEN <<>>
    ELSE LET c == CHOOSE x \in S : TRUE
         IN  (c :> AssignLabel(c[1], c[2])) @@ TabAssignLabel(S \ {c})

AssignLabelOf == TabAssignLabel(UserInputs \X LabelInputs)

RECURSIVE TabOrderId(_)
TabOrderId(S) ==
    IF S = {} THEN <<>>
    ELSE LET n == CHOOSE x \in S : TRUE
         IN  (n :> OrderIdOf(n)) @@ TabOrderId(S \ {n})

GeneratedId == TabOrderId(OrderDraws)

\* the string _run returns after database.update_order_resolution
Processed(order_id, resolution) ==
    <<"I have processed your request for order ">> \o order_id
    \o <<". The resolution is: ">> \o resolution

\* mutant of IssueResolverRun: the text is written before the branch is looked
\* at, so that a redirect or a rejection leaves its message as the note
IssueResolverRunWritesFirst(store, order_id, issue_type, details, missing_items, refund_amount) ==
    LET d == DispatchOf[<<issue_type, details, missing_items, refund_amount>>]
    IN  IF d.kind = "resolve"
        THEN [ret |-> Processed(order_id, d.text), note |-> d.text,
              store |-> update_order_resolution(store, order_id, d.text)]
        ELSE [ret |-> d.text, note |-> NoneVal,
              store |-> update_order_resolution(store, order_id, d.text)]

\* IssueResolverTool._run: the returned string, the note it handed to
\* update_order_resolution (None when it returned before) and the store it leaves
IssueResolverRun(store, order_id, issue_type, details, missing_items, refund_amount) ==
    LET d == DispatchOf[<<issue_type, details, missing_items, refund_amount>>]
    IN  IF d.kind = "resolve"
        THEN [ret |-> Processed(order_id, d.text), note |-> d.text,
              store |-> update_order_resolution(store, order_id, d.text)]
        ELSE [ret |-> d.text, note |-> NoneVal, store |-> store]

(* ------------------------------- the state ------------------------------ *)

VARIABLES
    db,     \* the orders table: order_id -> row
    last,   \* the last call made: its operation, the arguments the properties
            \* read, whether it raised and what it returned; for issue_resolver
            \* also the order's note before the call (prior) and the note handed
            \* to update_order_resolution (note)
    pc,         \* test_evaluation.main: where the batch run stands
    case,       \* the index in test_cases of the scenario being run
    assigned,   \* test_scenario's assigned_order_id
    calls,      \* tool calls the agent made in the current invoke
    results,    \* main's results list: "scores" or "error", one per scenario
    scenario,   \* test_scenario's locals: the agent outputs, the tool calls of
                \* the invokes, and what the Phase-1 evaluation was given
    reply,      \* the judge model's reply: the prose before the JSON object, the
                \* object, the prose after it, and the whole text
    parsed,     \* what _parse_llm_response made of the reply
    judged,     \* how a call of evaluate_response ended: whether llm.invoke
                \* returned, and the result returned or the exception raised
    rubric,     \* a response text and the sub-scores semantic_rubric_scores gave it
    few_shot,   \* a few-shot section and what parse_few_shot_examples made of it
    session,    \* the ChatSession of the interactive driver, with its position
    simulator,  \* the outcome of constructing a Simulator from a templates file
    startup,    \* a program's start: whether ideal_responses.md is there, what
                \* load_ideal_responses returned and what the run did after it
    memories    \* MemoryManager: the persisted memories of one user

tvars == <<db, last>>
hvars == <<pc, case, assigned, calls, results, scenario>>
jvars == <<reply, parsed, judged>>
xvars == <<rubric, few_shot, session, simulator>>
yvars == <<startup, memories>>
vars == <<db, last, pc, case, assigned, calls, results, scenario, reply, parsed, judged,
         rubric, few_shot, session, simulator, startup, memories>>

(* ------------------------ the tool layer, call by call ------------------- *)

\* create_db_and_tables() on a fresh file: the table exists and is empty
InitStore ==
    /\ db = EmptyDict
    /\ last = [op |-> "none"]

\* test_scenario's locals before its first invoke
NoScenario ==
    [response |-> NoneVal, first_output |-> NoneVal, agent_output1 |-> NoneVal,
     tool_calls |-> <<>>,
     tool_calls_phase1 |-> <<>>, corrections |-> 0, evaluated1 |-> NoneVal,
     invoked2 |-> FALSE]

\* the harness is not running
InitIdle ==
    /\ pc = "off"
    /\ case = 0
    /\ assigned = NoneVal
    /\ calls = 0
    /\ results = <<>>
    /\ scenario = NoScenario

\* no judge reply is at hand
InitNoReply ==
    /\ reply = NoneVal
    /\ parsed = [done |-> FALSE]
    /\ judged = [state |-> "none"]

\* no text is being scored, no few-shot section parsed, no chat session open
InitNoText ==
    /\ rubric = NoneVal
    /\ few_shot = NoneVal
    /\ session = NoneVal

\* the Simulator was constructed from the templates file
InitSimulator ==
    simulator = [state |-> "built", file |-> "templates",
                 templates |-> [kind |-> "mapping", value |-> TemplateList]]

\* no program start is under way and no memory file is open
InitNoRun ==
    /\ startup = NoneVal
    /\ memories = NoneVal

Init == InitStore /\ InitIdle /\ InitNoReply /\ InitNoText /\ InitSimulator /\ InitNoRun

\* Simulator.assign_and_create_order(user_input, label), n the random draw
AssignAndCreateOrder(user_input, label, n) ==
    LET lbl == AssignLabelOf[<<user_input, label>>]
        new_order_id == GeneratedId[n]
        made == create_order(db, new_order_id, lbl, TemplateFor(lbl))
    IN  /\ db' = made.store
        /\ last' = [op |-> "assign_and_create_order", user_input |-> user_input,
                    label |-> label, order_id |-> new_order_id,
                    raised |-> made.raised,
                    ret |-> IF made.raised THEN NoneVal ELSE <<new_order_id, lbl>>]

\* OrderTrackerTool._run(order_id)
OrderTracker(order_id) ==
    /\ last' = [op |-> "order_tracker", order_id |-> order_id, raised |-> FALSE,
                ret |-> OrderTrackerRun(db, order_id)]
    /\ UNCHANGED db

\* IssueResolverTool._run(order_id, issue_type, details, missing_items, refund_amount)
IssueResolver(order_id, issue_type, details, missing_items, refund_amount) ==
    LET run == IssueResolverRun(db, order_id, issue_type, details, missing_items,
                                refund_amount)
    IN  /\ db' = run.store
        /\ last' = [op |-> "issue_resolver", order_id |-> order_id,
                    issue_type |-> issue_type, details |-> details,
                    missing_items |-> missing_items, refund_amount |-> refund_amount,
                    prior |-> IF order_id \in DOMAIN db
                              THEN db[order_id].resolution_note ELSE NoneVal,
                    note |-> run.note, raised |-> FALSE, ret |-> run.ret]

Next ==
    \/ \E u \in UserInputs, l \in LabelInputs, n \in OrderDraws :
          AssignAndCreateOrder(u, l, n) /\ UNCHANGED <<hvars, jvars, xvars, yvars>>
    \/ \E o \in ToolOrderIds : OrderTracker(o) /\ UNCHANGED <<hvars, jvars, xvars, yvars>>
    \/ \E o \in ToolOrderIds, t \in IssueTypeInputs, d \in DetailsInputs,
          x \in OptionalInputs :
          IssueResolver(o, t, d, x[1], x[2]) /\ UNCHANGED <<hvars, jvars, xvars, yvars>>

Spec == Init /\ [][Next]_vars

\* The tool layer called with every spelling of the issue type, on a store that
\* holds at most the order of the first draw.
NextAlias ==
    \/ \E l \in {LATE, MISS} :
          AssignAndCreateOrder(NoneVal, l, 100000) /\ UNCHANGED <<hvars, jvars, xvars, yvars>>
    \/ \E o \in ToolOrderIds, t \in AliasIssueTypes, d \in DetailsInputs,
          x \in OptionalInputs :
          IssueResolver(o, t, d, x[1], x[2]) /\ UNCHANGED <<hvars, jvars, xvars, yvars>>

SpecAlias == Init /\ [][NextAlias]_vars

(* ---------------- test_evaluation.py: main and test_scenario ------------- *)

\* main's test_cases, by label
test_cases == <<LATE, MISS, QUALITY, WRONG, PAYMENT, ADDRESS, COLD, TRACK>>

\* how many of the test cases the batch runs, and how many tool calls the agent
\* may make in one invoke
NumCases == 2
MaxToolCalls == 2

\* what the agent may pass to issue_resolver
AgentIssueTypes == {late_delivery, TRACK, poor_quality}
AgentDetails == DetailsInputs

AgentTurns == {"phase1", "corrective", "phase2"}

\* test_scenario's resolution_cues
resolution_cues ==
    {<<"i", "s", "s", "u", "e", "d", " ", "a", " ", "c", "r", "e", "d", "i", "t">>,
     <<"p", "r", "o", "c", "e", "s", "s", "e", "d", " ", "a", " ", "r", "e", "f", "u", "n", "d">>,
     <<"f", "u", "l", "l", " ", "r", "e", "f", "u", "n", "d">>,
     <<"c", "r", "e", "d", "i", "t", "e", "d">>,
     <<"v", "o", "u", "c", "h", "e", "r">>,
     <<"d", "e", "l", "i", "v", "e", "r", "y", " ", "c", "r", "e", "d", "i", "t", "s">>,
     <<"a", "d", "d", "e", "d", " ", "a", " ", "c", "r", "e", "d", "i", "t">>,
     <<"r", "e", "p", "l", "a", "c", "e", "m", "e", "n", "t", " ", "i", "s", " ", "o", "n", " ", "i", "t", "s", " ", "w", "a", "y">>,
     <<"r", "e", "s", "e", "n", "d", " ", "t", "h", "e", " ", "o", "r", "d", "e", "r">>,
     <<"h", "a", "s", " ", "b", "e", "e", "n", " ", "a", "p", "p", "l", "i", "e", "d">>,
     <<"h", "a", "v", "e", " ", "b", "e", "e", "n", " ", "a", "d", "d", "e", "d">>,
     <<"h", "a", "s", " ", "b", "e", "e", "n", " ", "i", "s", "s", "u", "e", "d">>,
     <<"h", "a", "s", " ", "b", "e", "e", "n", " ", "c", "r", "e", "d", "i", "t", "e", "d">>}

\* any(cue in (agent_output1 or "").lower() for cue in resolution_cues)
HasCue(agent_output) ==
    \E cue \in resolution_cues :
        Contains(cue, lower(IF agent_output = NoneVal THEN <<>> ELSE agent_output))

\* what the agent may answer in the harness
HarnessOutputs ==
    {<<"I", "'", "m", " ", "s", "o", " ", "s", "o", "r", "r", "y", ".", " ", "I", "s", " ", "i", "t", " ", "l", "a", "t", "e", "?">>,
     <<"D", "e", "l", "i", "v", "e", "r", "y", " ", "C", "r", "e", "d", "i", "t", "s", " ", "a", "d", "d", "e", "d", ".">>}

InitHarness ==
    /\ InitStore
    /\ InitNoRun
    /\ InitNoReply
    /\ InitNoText
    /\ InitSimulator
    /\ pc = "main"
    /\ case = 1
    /\ assigned = NoneVal
    /\ calls = 0
    /\ results = <<>>
    /\ scenario = NoScenario

\* test_scenario up to the try block: the order of the scenario is created; an
\* exception of assign_and_create_order is not caught, here or in main
StartScenario(n) ==
    /\ pc = "main"
    /\ case <= NumCases
    /\ AssignAndCreateOrder(NoneVal, test_cases[case], n)
    /\ IF last'.raised
       THEN pc' = "crashed" /\ UNCHANGED assigned
       ELSE pc' = "phase1" /\ assigned' = last'.ret[1]
    /\ calls' = 0
    /\ scenario' = NoScenario
    /\ UNCHANGED <<case, results>>

\* agent_executor.invoke: the agent calls order_tracker
AgentCallsTracker(order_id) ==
    /\ pc \in AgentTurns
    /\ calls < MaxToolCalls
    /\ OrderTracker(order_id)
    /\ calls' = calls + 1
    /\ scenario' = [scenario EXCEPT !.tool_calls = Append(@, "order_tracker")]
    /\ UNCHANGED <<pc, case, assigned, results>>

\* agent_executor.invoke: the agent calls issue_resolver
AgentCallsResolver(order_id, issue_type, details) ==
    /\ pc \in AgentTurns
    /\ calls < MaxToolCalls
    /\ IssueResolver(order_id, issue_type, details, <<>>, <<>>)
    /\ calls' = calls + 1
    /\ scenario' = [scenario EXCEPT !.tool_calls = Append(@, "issue_resolver")]
    /\ UNCHANGED <<pc, case, assigned, results>>

\* mutant of GuardAfterPhase1: the corrected output is checked again
GuardAfterPhase1Again(turn, output) ==
    IF turn \in {"phase1", "corrective"} /\ HasCue(output) THEN "corrective" ELSE "eval1"

\* where test_scenario goes after an invoke of Phase 1 returned: a first output
\* with a resolution cue is answered by the one corrective invoke
GuardAfterPhase1(turn, output) ==
    IF turn = "phase1" /\ HasCue(output) THEN "corrective" ELSE "eval1"

\* agent_executor.invoke returns its output and intermediate steps
AgentReplies(output) ==
    /\ pc \in AgentTurns
    /\ pc' = IF pc = "phase2" THEN "eval2" ELSE GuardAfterPhase1(pc, output)
    /\ scenario' =
          LET response == [output |-> output, intermediate_steps |-> scenario.tool_calls]
          IN  IF pc = "phase1"
              THEN [scenario EXCEPT !.response = response, !.first_output = output,
                                    !.agent_output1 = output,
                                    !.tool_calls_phase1 = scenario.tool_calls,
                                    !.tool_calls = <<>>]
              ELSE IF pc = "corrective"
              THEN [scenario EXCEPT !.response = response, !.agent_output1 = output,
                                    !.tool_calls_phase1 = scenario.tool_calls,
                                    !.corrections = @ + 1, !.tool_calls = <<>>]
              ELSE [scenario EXCEPT !.response = response, !.tool_calls = <<>>]
    /\ calls' = 0
    /\ UNCHANGED <<db, last, case, assigned, results>>

\* the dual evaluation of a phase returns; after Phase 1 the harness invokes
\* Phase 2, after Phase 2 the result is recorded
Evaluate ==
    /\ pc \in {"eval1", "eval2"}
    /\ IF pc = "eval1"
       THEN /\ pc' = "phase2"
            /\ scenario' = [scenario EXCEPT
                              !.evaluated1 = [agent_response |-> scenario.agent_output1,
                                              tool_calls |-> scenario.tool_calls_phase1],
                              !.invoked2 = TRUE]
            /\ UNCHANGED <<case, results>>
       ELSE /\ pc' = "main"
            /\ case' = case + 1
            /\ results' = Append(results, "scores")
            /\ UNCHANGED scenario
    /\ UNCHANGED <<db, last, assigned, calls>>

\* an exception inside the try block: test_scenario returns an error record
ScenarioFails ==
    /\ pc \in AgentTurns \cup {"eval1", "eval2"}
    /\ pc' = "main"
    /\ case' = case + 1
    /\ results' = Append(results, "error")
    /\ calls' = 0
    /\ UNCHANGED <<db, last, assigned, scenario>>

\* main leaves the loop and writes the report
WriteReport ==
    /\ pc = "main"
    /\ case > NumCases
    /\ pc' = "report"
    /\ UNCHANGED <<db, last, case, assigned, calls, results, scenario>>

NextHarness ==
    \/ \E n \in OrderDraws : StartScenario(n) /\ UNCHANGED <<jvars, xvars, yvars>>
    \/ \E o \in ToolOrderIds : AgentCallsTracker(o) /\ UNCHANGED <<jvars, xvars, yvars>>
    \/ \E o \in ToolOrderIds, t \in AgentIssueTypes, d \in AgentDetails :
          AgentCallsResolver(o, t, d) /\ UNCHANGED <<jvars, xvars, yvars>>
    \/ \E output \in HarnessOutputs : AgentReplies(output) /\ UNCHANGED <<jvars, xvars, yvars>>
    \/ Evaluate /\ UNCHANGED <<jvars, xvars, yvars>>
    \/ ScenarioFails /\ UNCHANGED <<jvars, xvars, yvars>>
    \/ WriteReport /\ UNCHANGED <<jvars, xvars, yvars>>

SpecHarness == InitHarness /\ [][NextHarness]_vars

(* --------------------- llm_judge_implementation.py ----------------------- *)

\* str.find(c) and str.rfind(c): the 0-based index of the first and of the last
\* occurrence of the character, -1 without one
find(s, c) ==
    LET at == {i \in 1..Len(s) : s[i] = c}
    IN  IF at = {} THEN -1 ELSE (CHOOSE i \in at : \A j \in at : i <= j) - 1

rfind(s, c) ==
    LET at == {i \in 1..Len(s) : s[i] = c}
    IN  IF at = {} THEN -1 ELSE (CHOOSE i \in at : \A j \in at : i >= j) - 1

\* the slice s[start:end] for 0 <= start and 0 <= end <= len(s)
Slice(s, start, end) == SubSeq(s, start + 1, end)

\* JSON texts are written in tokens: "{", "}", ",", a key with its colon ("k",
\* or a key of the score report), a number ("0", "1", "10", "11"), "s" for a
\* string literal, "[]" for a list, " " for whitespace; any other token is
\* prose. A JSON value is <<kind, atom, members>>: a number with its token, a
\* string, a list, or an object with its <<key, value>> members in dict order.
ReportKeys ==
    <<"empathy", "accuracy", "policy_compliance", "resolution_quality",
      "phase_compliance", "overall_score", "justification", "strengths",
      "weaknesses", "failure_modes">>
KeyTokens == {"k"} \cup {ReportKeys[i] : i \in 1..Len(ReportKeys)}
NumberTokens == {"0", "1", "10", "11"}
ListTokens == {"[]", "[f]"}
NumberOf == ("0" :> 0) @@ ("1" :> 1) @@ ("10" :> 10) @@ ("11" :> 11)

JsonNumber(tok) == <<"num", tok, <<>> >>
JsonString == <<"str", "s", <<>> >>
JsonList == <<"list", "[]", <<>> >>
JsonDict(members) == <<"obj", "", members>>
JsonNum == JsonNumber("1")
JsonEmpty == JsonDict(<<>>)
JsonObj(v) == JsonDict(<< <<"k", v>> >>)

\* d[key] = val on a dict: a key already present keeps its place
DictPut(members, key, val) ==
    IF \E i \in 1..Len(members) : members[i][1] = key
    THEN [i \in 1..Len(members) |->
            IF members[i][1] = key THEN <<key, val>> ELSE members[i]]
    ELSE Append(members, <<key, val>>)

\* json.loads: the parse of one value at the head of the tokens, with what is
\* left; ParseMembers reads the members of an object after its "{" or a ","
RECURSIVE ParseValue(_)
RECURSIVE ParseMembers(_, _)
ParseValue(toks) ==
    LET fail == [ok |-> FALSE, val |-> NoneVal, rest |-> <<>>]
    IN  IF toks = <<>> THEN fail
        ELSE IF Head(toks) \in NumberTokens
        THEN [ok |-> TRUE, val |-> JsonNumber(Head(toks)), rest |-> Tail(toks)]
        ELSE IF Head(toks) = "s"
        THEN [ok |-> TRUE, val |-> JsonString, rest |-> Tail(toks)]
        ELSE IF Head(toks) \in ListTokens
        THEN [ok |-> TRUE, val |-> <<"list", Head(toks), <<>> >>, rest |-> Tail(toks)]
        ELSE IF Head(toks) # "{" \/ Len(toks) < 2 THEN fail
        ELSE IF toks[2] = "}"
        THEN [ok |-> TRUE, val |-> JsonEmpty, rest |-> SubSeq(toks, 3, Len(toks))]
        ELSE ParseMembers(Tail(toks), <<>>)

ParseMembers(toks, members) ==
    LET fail == [ok |-> FALSE, val |-> NoneVal, rest |-> <<>>]
    IN  IF toks = <<>> \/ Head(toks) \notin KeyTokens THEN fail
        ELSE LET member == ParseValue(Tail(toks))
                 got == DictPut(members, Head(toks), member.val)
             IN  IF ~member.ok \/ member.rest = <<>> THEN fail
                 ELSE IF Head(member.rest) = "}"
                 THEN [ok |-> TRUE, val |-> JsonDict(got), rest |-> Tail(member.rest)]
                 ELSE IF Head(member.rest) = ","
                 THEN ParseMembers(Tail(member.rest), got)
                 ELSE fail

\* json.loads(text): whitespace between tokens is skipped; anything but exactly
\* one value raises (JSONDecodeError, a ValueError)
json_loads(text) ==
    LET toks == SelectSeq(text, LAMBDA c : c \notin Whitespace)
        got == ParseValue(toks)
    IN  IF got.ok /\ got.rest = <<>>
        THEN [raised |-> FALSE, value |-> got.val]
        ELSE [raised |-> TRUE, value |-> NoneVal]

\* mutant of parse_llm_response: the first '}' is taken, not the last
parse_llm_response_first_close(response_text) ==
    LET start == find(response_text, "{")
        end == find(response_text, "}") + 1
    IN  IF start = -1 \/ end = 0
        THEN [raised |-> TRUE, value |-> NoneVal]
        ELSE json_loads(Slice(response_text, start, end))

\* LLMJudge._parse_llm_response
parse_llm_response(response_text) ==
    LET start == find(response_text, "{")
        end == rfind(response_text, "}") + 1
    IN  IF start = -1 \/ end = 0
        THEN [raised |-> TRUE, value |-> NoneVal]
        ELSE json_loads(Slice(response_text, start, end))

\* the text of a JSON value, ws the whitespace written after "{" and after a key
RECURSIVE Render(_, _)
RECURSIVE RenderMembers(_, _)
Render(v, ws) ==
    IF v[1] # "obj" THEN <<v[2]>>
    ELSE <<"{">> \o ws \o RenderMembers(v[3], ws) \o <<"}">>

RenderMembers(members, ws) ==
    IF members = <<>> THEN <<>>
    ELSE <<members[1][1]>> \o ws \o Render(members[1][2], ws)
         \o (IF Len(members) > 1 THEN <<",">> ELSE <<>>)
         \o RenderMembers(Tail(members), ws)

\* the longest prose around the object and the deepest nesting of the object
MaxProse == 2
MaxDepth == 2

RECURSIVE JsonObjects(_)
JsonObjects(depth) ==
    IF depth = 0 THEN {JsonEmpty}
    ELSE JsonObjects(depth - 1) \cup {JsonObj(JsonNum)}
         \cup {JsonObj(v) : v \in JsonObjects(depth - 1)}

ProseChars == {"p", " ", "{", "}"}

RECURSIVE Texts(_)
Texts(n) ==
    IF n = 0 THEN {<<>>}
    ELSE Texts(n - 1) \cup {Append(s, c) : s \in Texts(n - 1), c \in ProseChars}

\* a reply: prose, one well-formed JSON object, prose
Replies ==
    {[before |-> b, object |-> v, after |-> a, text |-> b \o Render(v, ws) \o a] :
        b \in Texts(MaxProse), a \in Texts(MaxProse), v \in JsonObjects(MaxDepth),
        ws \in {<<>>, <<" ">>}}

\* a score report as the prompt asks for it: the five dimensions scored with
\* the given tokens, their average, and the texts and lists
Report(scores) ==
    JsonDict([i \in 1..Len(ReportKeys) |->
        <<ReportKeys[i],
          IF i <= Len(scores) THEN JsonNumber(scores[i])
          ELSE IF i = 6 THEN JsonNumber(scores[1])
          ELSE IF i = 7 THEN JsonString
          ELSE IF i = 10 THEN <<"list", "[f]", <<>> >> ELSE JsonList>>])

\* objects a judge model may answer with: full reports, a report with a score
\* above the scale, one with a string for a score, and one with a single key
ReportObjects ==
    {Report(<<"10", "10", "10", "10", "10">>), Report(<<"0", "0", "0", "0", "0">>),
     Report(<<"11", "11", "11", "11", "11">>),
     JsonDict(<< <<"empathy", JsonString>> >> \o SubSeq(Report(<<"1">>)[3], 2, 10)),
     JsonDict(<< <<"empathy", JsonNumber("10")>> >>)}

\* replies that carry a report, and replies that are prose only
ReportReplies ==
    {[before |-> b, object |-> v, after |-> a, text |-> b \o Render(v, <<>>) \o a] :
        b \in Texts(MaxProse), a \in Texts(MaxProse), v \in ReportObjects}

ProseReplies ==
    {[before |-> b, object |-> NoneVal, after |-> <<>>, text |-> b] :
        b \in Texts(MaxProse)}

\* LLMJudge._get_default_scores
get_default_scores ==
    JsonDict(<< <<"empathy", JsonNumber("0")>>, <<"accuracy", JsonNumber("0")>>,
                <<"policy_compliance", JsonNumber("0")>>,
                <<"resolution_quality", JsonNumber("0")>>,
                <<"phase_compliance", JsonNumber("0")>>,
                <<"overall_score", JsonNumber("0")>>,
                <<"justification", <<"str", "Error parsing LLM response", <<>> >> >>,
                <<"strengths", JsonList>>,
                <<"weaknesses", <<"list", "[Evaluation failed]", <<>> >> >>,
                <<"failure_modes", <<"list", "[evaluation_error]", <<>> >> >> >>)

\* mutant of evaluate_response: no try around the parse
evaluate_response_no_try(invoked, content) ==
    IF ~invoked THEN [state |-> "raised", invoked |-> FALSE, result |-> NoneVal]
    ELSE LET scores == parse_llm_response(content)
         IN  IF scores.raised
             THEN [state |-> "raised", invoked |-> TRUE, result |-> NoneVal]
             ELSE [state |-> "returned", invoked |-> TRUE, result |-> scores.value]

\* LLMJudge.evaluate_response; invoked: self.llm.invoke(prompt) returned (with
\* content as result.content) rather than raised. The invoke is before the try.
evaluate_response(invoked, content) ==
    IF ~invoked THEN [state |-> "raised", invoked |-> FALSE, result |-> NoneVal]
    ELSE LET scores == parse_llm_response(content)
         IN  IF scores.raised
             THEN [state |-> "returned", invoked |-> TRUE, result |-> get_default_scores]
             ELSE [state |-> "returned", invoked |-> TRUE, result |-> scores.value]

InitJudge ==
    /\ InitStore
    /\ InitNoRun
    /\ InitIdle
    /\ reply \in Replies \cup ReportReplies \cup ProseReplies
    /\ parsed = [done |-> FALSE]
    /\ judged = [state |-> "none"]
    /\ InitNoText
    /\ InitSimulator

\* self._parse_llm_response(result.content)
ParseLlmResponse ==
    /\ ~parsed.done
    /\ parsed' = [done |-> TRUE] @@ parse_llm_response(reply.text)
    /\ UNCHANGED <<tvars, hvars, xvars, reply, judged, yvars>>

\* llm_judge.evaluate_response(...)
EvaluateResponse(invoked) ==
    /\ judged.state = "none"
    /\ judged' = evaluate_response(invoked, reply.text)
    /\ UNCHANGED <<tvars, hvars, xvars, reply, parsed, yvars>>

NextJudge ==
    \/ ParseLlmResponse
    \/ \E invoked \in BOOLEAN : EvaluateResponse(invoked)

SpecJudge == InitJudge /\ [][NextJudge]_vars

(* --------------- test_evaluation.py: semantic_rubric_scores -------------- *)

\* A text is a sequence of characters; "rsquo", "ldquo", "rdquo" and "ndash"
\* stand for the characters U+2019, U+201C, U+201D and U+2013.
\* norm's s.replace(...) chain
PlainChar(c) ==
    IF c = "rsquo" THEN "'"
    ELSE IF c \in {"ldquo", "rdquo"} THEN "\""
    ELSE IF c = "ndash" THEN "-" ELSE c

\* re.sub(r"\s+", " ", s): every run of whitespace becomes one space
CollapseSpace(s) ==
    LET marked == [i \in 1..Len(s) |->
                      IF s[i] \notin Whitespace THEN <<s[i], TRUE>>
                      ELSE <<" ", i = Len(s) \/ s[i + 1] \notin Whitespace>>]
        kept == SelectSeq(marked, LAMBDA p : p[2])
    IN  [i \in 1..Len(kept) |-> kept[i][1]]

\* semantic_rubric_scores.norm
norm(s) ==
    LET low == lower(s)
        plain == [i \in 1..Len(low) |-> PlainChar(low[i])]
    IN  strip(CollapseSpace(plain))

\* exemplars, in the dict's order
RubricCats == <<"accuracy", "empathy", "resolution", "clarity_tone">>

exemplars ==
    ("accuracy" :> {
        <<"t", "r", "a", "c", "k", "e", "r", " ", "s", "h", "o", "w", "s">>,
        <<"c", "u", "r", "r", "e", "n", "t", " ", "s", "t", "a", "t", "u", "s">>,
        <<"e", "t", "a">>,
        <<"i", "t", "e", "m", "s", " ", "i", "n", " ", "y", "o", "u", "r", " ", "o", "r", "d", "e", "r">>,
        <<"c", "o", "n", "f", "i", "r", "m">>,
        <<"o", "r", "d", "e", "r", " ", "i", "d">>,
        <<"o", "r", "d", "-">>,
        <<"w", "a", "s", " ", "e", "x", "p", "e", "c", "t", "e", "d">>,
        <<"o", "u", "t", " ", "f", "o", "r", " ", "d", "e", "l", "i", "v", "e", "r", "y">>,
        <<"d", "r", "i", "v", "e", "r", " ", "i", "s", " ", "e", "n", " ", "r", "o", "u", "t", "e">>,
        <<"d", "e", "l", "i", "v", "e", "r", "e", "d">>,
        <<"p", "r", "e", "p", "a", "r", "i", "n", "g">>
    })
    @@ ("empathy" :> {
        <<"i", "'", "m", " ", "s", "o", "r", "r", "y">>,
        <<"s", "o", " ", "s", "o", "r", "r", "y">>,
        <<"i", " ", "u", "n", "d", "e", "r", "s", "t", "a", "n", "d">>,
        <<"i", " ", "k", "n", "o", "w", " ", "t", "h", "i", "s", " ", "i", "s", " ", "f", "r", "u", "s", "t", "r", "a", "t", "i", "n", "g">>,
        <<"t", "h", "a", "n", "k", "s", " ", "f", "o", "r", " ", "y", "o", "u", "r", " ", "p", "a", "t", "i", "e", "n", "c", "e">>,
        <<"a", "p", "o", "l", "o", "g", "i", "z", "e", " ", "f", "o", "r", " ", "t", "h", "e", " ", "i", "n", "c", "o", "n", "v", "e", "n", "i", "e", "n", "c", "e">>,
        <<"t", "h", "a", "t", " ", "s", "o", "u", "n", "d", "s", " ", "d", "i", "s", "a", "p", "p", "o", "i", "n", "t", "i", "n", "g">>
    })
    @@ ("resolution" :> {
        <<"i", "s", "s", "u", "e", "d", " ", "a", " ", "c", "r", "e", "d", "i", "t">>,
        <<"p", "a", "r", "t", "i", "a", "l", " ", "c", "r", "e", "d", "i", "t">>,
        <<"p", "r", "o", "c", "e", "s", "s", "e", "d", " ", "a", " ", "r", "e", "f", "u", "n", "d">>,
        <<"f", "u", "l", "l", " ", "r", "e", "f", "u", "n", "d">>,
        <<"r", "e", "p", "l", "a", "c", "e", "m", "e", "n", "t">>,
        <<"p", "a", "r", "t", "i", "a", "l", " ", "r", "e", "f", "u", "n", "d">>,
        <<"r", "e", "s", "o", "l", "u", "t", "i", "o", "n">>,
        <<"r", "e", "s", "e", "n", "d", " ", "t", "h", "e", " ", "o", "r", "d", "e", "r">>,
        <<"u", "p", "d", "a", "t", "e", "d", " ", "t", "h", "e", " ", "a", "d", "d", "r", "e", "s", "s">>,
        <<"e", "s", "c", "a", "l", "a", "t", "e", "d", " ", "t", "h", "i", "s">>,
        <<"l", "o", "g", "g", "e", "d", " ", "t", "h", "e", " ", "i", "s", "s", "u", "e">>,
        <<"a", "p", "p", "l", "i", "e", "d", " ", "a", " ", "v", "o", "u", "c", "h", "e", "r">>
    })
    @@ ("clarity_tone" :> {
        <<"p", "l", "e", "a", "s", "e">>,
        <<"t", "h", "a", "n", "k", " ", "y", "o", "u">>,
        <<"c", "o", "u", "l", "d", " ", "y", "o", "u">>,
        <<"c", "a", "n", " ", "y", "o", "u">>,
        <<"l", "e", "t", " ", "m", "e">>,
        <<"i", " ", "c", "a", "n", " ", "h", "e", "l", "p">>,
        <<"i", "'", "l", "l", " ", "t", "a", "k", "e", " ", "c", "a", "r", "e", " ", "o", "f", " ", "t", "h", "i", "s">>,
        <<"h", "e", "r", "e", "'", "s", " ", "w", "h", "a", "t", " ", "i", "'", "v", "e", " ", "d", "o", "n", "e">>,
        <<"a", "n", "y", "t", "h", "i", "n", "g", " ", "e", "l", "s", "e", " ", "i", " ", "c", "a", "n", " ", "a", "s", "s", "i", "s", "t", " ", "y", "o", "u", " ", "w", "i", "t", "h">>,
        <<"h", "a", "s", " ", "t", "h", "i", "s", " ", "r", "e", "s", "o", "l", "v", "e", "d", " ", "y", "o", "u", "r", " ", "i", "s", "s", "u", "e">>,
        <<"d", "o", "e", "s", " ", "t", "h", "i", "s", " ", "r", "e", "s", "o", "l", "v", "e", " ", "y", "o", "u", "r", " ", "i", "s", "s", "u", "e">>,
        <<"d", "o", "e", "s", " ", "t", "h", "i", "s", " ", "h", "e", "l", "p">>,
        <<"h", "a", "s", " ", "t", "h", "i", "s", " ", "b", "e", "e", "n", " ", "r", "e", "s", "o", "l", "v", "e", "d">>,
        <<"l", "e", "t", " ", "m", "e", " ", "k", "n", "o", "w", " ", "i", "f", " ", "y", "o", "u", " ", "n", "e", "e", "d", " ", "a", "n", "y", "t", "h", "i", "n", "g", " ", "e", "l", "s", "e">>,
        <<"p", "l", "e", "a", "s", "e", " ", "c", "o", "n", "f", "i", "r", "m">>,
        <<"t", "h", "a", "n", "k", "s", " ", "f", "o", "r", " ", "c", "o", "n", "f", "i", "r", "m", "i", "n", "g">>,
        <<"p", "l", "e", "a", "s", "e", " ", "s", "h", "a", "r", "e">>,
        <<"p", "l", "e", "a", "s", "e", " ", "p", "r", "o", "v", "i", "d", "e">>,
        <<"p", "l", "e", "a", "s", "e", " ", "l", "e", "t", " ", "m", "e", " ", "k", "n", "o", "w">>
    })

\* mutant of TARGET_MATCHES: every category uses the default target
TARGET_MATCHES_default(cat) == 3

\* TARGET_MATCHES.get(cat, TARGET_MATCHES['default'])
TARGET_MATCHES(cat) == IF cat = "clarity_tone" THEN 1 ELSE 3

\* matches, per category: the phrases of the category found in text_norm
MatchCounts(text) ==
    LET text_norm == norm(text)
    IN  [cat \in {RubricCats[i] : i \in 1..Len(RubricCats)} |->
            Cardinality({p \in exemplars[cat] : Contains(norm(p), text_norm)})]

Min2(a, b) == IF a <= b THEN a ELSE b

\* round(num / den * 100.0, 1), in tenths of a percent. No quotient the targets
\* 1 and 3 give lies halfway between two tenths.
Round1(num, den) == (2 * 1000 * num + den) \div (2 * den)

\* mutant of ScoresFrom: no cap at the target
ScoresFromUncapped(matches) ==
    [cat \in DOMAIN matches |-> Round1(matches[cat], TARGET_MATCHES(cat))]

\* pct = min(matches, target) / target * 100.0; scores[cat] = round(pct, 1),
\* in tenths of a percent
ScoresFrom(matches) ==
    [cat \in DOMAIN matches |->
        Round1(Min2(matches[cat], TARGET_MATCHES(cat)), TARGET_MATCHES(cat))]

\* semantic_rubric_scores, with the match counts it went through
semantic_rubric_scores(text) ==
    LET matches == MatchCounts(text)
    IN  [matches |-> matches, scores |-> ScoresFrom(matches)]

\* weights of evaluate_response, in hundredths
weights ==
    ("accuracy" :> 30) @@ ("empathy" :> 30) @@ ("resolution" :> 25) @@ ("clarity_tone" :> 15)

\* sum(rubric[k] * weights[k] for k in weights), in thousandths of a percent
RECURSIVE WeightedSum(_, _)
WeightedSum(scores, i) ==
    IF i = 0 THEN 0
    ELSE scores[RubricCats[i]] * weights[RubricCats[i]] + WeightedSum(scores, i - 1)

\* rubric_weighted = round(sum(...), 1), in tenths of a percent. No sum of the
\* scores the targets allow lies halfway between two tenths.
rubric_weighted(scores) == (WeightedSum(scores, Len(RubricCats)) + 50) \div 100

\* the rubric part of evaluate_response: the sub-scores and the weighted score
RubricOf(text) ==
    LET scored == semantic_rubric_scores(text)
    IN  scored @@ [rubric_weighted |-> rubric_weighted(scored.scores)]

\* how many phrases may be added to a text
MaxPhrases == 2

\* response texts to start from, and phrases to add to them
StartTexts ==
    {<<>>,
     <<"I", "'", "m", " ", "s", "o", "r", "r", "y", ",", " ", "s", "o", " ", "s", "o", "r", "r", "y", ",", " ", "I", " ", "u", "n", "d", "e", "r", "s", "t", "a", "n", "d", ".", " ", "T", "r", "a", "c", "k", "e", "r", " ", "s", "h", "o", "w", "s", " ", "t", "h", "e", " ", "e", "t", "a", " ", "f", "o", "r", " ", "o", "r", "d", "e", "r", " ", "i", "d", " ", "1", ".", " ", "A", " ", "r", "e", "p", "l", "a", "c", "e", "m", "e", "n", "t", " ", "o", "r", " ", "a", " ", "p", "a", "r", "t", "i", "a", "l", " ", "r", "e", "f", "u", "n", "d", "?", " ", "T", "h", "a", "n", "k", " ", "y", "o", "u">>,
     <<"H", "e", "l", "l", "o", " ", "t", "h", "e", "r", "e">>,
     <<"T", "r", "a", "c", "k", "e", "r", " ", "s", "h", "o", "w", "s", " ", " ", "y", "o", "u", "r", " ", "c", "u", "r", "r", "e", "n", "t", " ", "s", "t", "a", "t", "u", "s">>}
AddedPhrases ==
    {<<"e", "t", "a">>,
     <<"C", "o", "n", "f", "i", "r", "m">>,
     <<"o", "r", "d", "e", "r", " ", "i", "d">>,
     <<"s", "o", " ", "s", "o", "r", "r", "y">>,
     <<"I", "rsquo", "m", " ", " ", "S", "o", "r", "r", "y">>,
     <<"f", "u", "l", "l", " ", "r", "e", "f", "u", "n", "d">>,
     <<"p", "l", "e", "a", "s", "e", " ", "c", "o", "n", "f", "i", "r", "m">>,
     <<"h", "e", "l", "l", "o">>}

InitRubric ==
    /\ InitStore /\ InitIdle /\ InitNoReply /\ InitSimulator /\ InitNoRun
    /\ few_shot = NoneVal
    /\ session = NoneVal
    /\ \E text \in StartTexts :
          rubric = [text |-> text, added |-> 0] @@ RubricOf(text)

\* the response grows by a phrase, at its end or at its start, and is scored
AddPhrase(phrase, at_end) ==
    LET text == IF at_end THEN rubric.text \o <<" ">> \o phrase
                ELSE phrase \o <<" ">> \o rubric.text
    IN  /\ rubric.added < MaxPhrases
        /\ rubric' = [text |-> text, added |-> rubric.added + 1]
                        @@ RubricOf(text)
        /\ UNCHANGED <<tvars, hvars, jvars, few_shot, session, simulator, yvars>>

NextRubric == \E phrase \in AddedPhrases, at_end \in BOOLEAN : AddPhrase(phrase, at_end)

SpecRubric == InitRubric /\ [][NextRubric]_vars


(* ------- parse_few_shot_examples (test_evaluation.py and main.py) -------- *)

\* A prompt suffix is written in tokens: the section headers, "$$", "**" (one
\* or two asterisks), the example headers, the turn markers, " " and "\n", and
\* words. version is "test_evaluation" or "main", the file of the function.
FewShotVersions == {"test_evaluation", "main"}
TurnMarks == {"User:", "user:", "Agent:", "AGENT:"}

\* Example\s+\d+\s*: (test_evaluation) and Example\s+\w+\s*: (main), IGNORECASE
ExampleMarks(version) ==
    {"Example 1:", "Example 2:", "example 3 :"}
        \cup (IF version = "main" THEN {"Example A:"} ELSE {})

\* the last index of the whitespace run that starts at i, i - 1 without one
RECURSIVE WsEnd(_, _)
WsEnd(s, i) ==
    IF i <= Len(s) /\ s[i] \in Whitespace THEN WsEnd(s, i + 1) ELSE i - 1

HasNewline(s, from, to) == \E k \in from..to : s[k] = "\n"

\* ^\s*\[FEW-SHOT EXAMPLES\]\s*$ with MULTILINE: the header with nothing but
\* whitespace around it on its line
HeaderLineAt(s, i) ==
    /\ s[i] = "[FEW-SHOT EXAMPLES]"
    /\ \E j \in 1..i : /\ j = 1 \/ s[j - 1] = "\n"
                       /\ \A k \in j..(i - 1) : s[k] \in Whitespace
    /\ \E j \in i..Len(s) : /\ j = Len(s) \/ s[j + 1] = "\n"
                            /\ \A k \in (i + 1)..j : s[k] \in Whitespace

\* \$\$\s*[\r\n]+\s*FEW-SHOT EXAMPLES\s*[\r\n]+\s*\$\$ at i: its last index, or 0
DollarHeaderEnd(s, i) ==
    LET a == WsEnd(s, i + 1)
        b == WsEnd(s, a + 2)
    IN  IF /\ s[i] = "$$"
           /\ a >= i + 1 /\ HasNewline(s, i + 1, a)
           /\ a + 1 <= Len(s) /\ s[a + 1] = "FEW-SHOT EXAMPLES"
           /\ b >= a + 2 /\ HasNewline(s, a + 2, b)
           /\ b + 1 <= Len(s) /\ s[b + 1] = "$$"
        THEN b + 1 ELSE 0

\* \*\*?Few-?shot examples?:?\*\*? at i (main): its last index, or 0
BoldHeaderEnd(s, i) ==
    IF /\ i + 2 <= Len(s) /\ s[i] = "**"
       /\ s[i + 1] \in {"Few-shot examples:", "few-shot example"}
       /\ s[i + 2] = "**"
    THEN i + 2 ELSE 0

LeastOf(S) == CHOOSE x \in S : \A y \in S : x <= y

\* re.search for the section header: whether it matched, and the first and the
\* last token of the match
SearchHeader(version, s) ==
    LET none == [matched |-> FALSE, start |-> 0, end |-> 0]
        lines == {i \in 1..Len(s) : HeaderLineAt(s, i)}
        dollars == {i \in 1..Len(s) : DollarHeaderEnd(s, i) > 0}
        bolds == {i \in 1..Len(s) : BoldHeaderEnd(s, i) > 0}
    IN  IF version = "main"
        THEN IF bolds = {} THEN none
             ELSE [matched |-> TRUE, start |-> LeastOf(bolds),
                   end |-> BoldHeaderEnd(s, LeastOf(bolds))]
        ELSE IF lines # {}
        THEN [matched |-> TRUE, start |-> LeastOf(lines), end |-> LeastOf(lines)]
        ELSE IF dollars # {}
        THEN [matched |-> TRUE, start |-> LeastOf(dollars),
              end |-> DollarHeaderEnd(s, LeastOf(dollars))]
        ELSE none

\* the length of the match of a split pattern at i, 0 without a match:
\* the example header, or the turn marker User:|Agent: (test_evaluation) and
\* \*\*?User\s*:\*\*?|\*\*?Agent\s*:\*\*? (main), IGNORECASE
MatchLen(kind, version, s, i) ==
    IF kind = "example"
    THEN IF s[i] \in ExampleMarks(version) THEN 1 ELSE 0
    ELSE IF version = "test_evaluation"
    THEN IF s[i] \in TurnMarks THEN 1 ELSE 0
    ELSE IF i + 2 <= Len(s) /\ s[i] = "**" /\ s[i + 1] \in TurnMarks /\ s[i + 2] = "**"
    THEN 3 ELSE 0

\* re.split(pattern, s): the pieces between the matches, from position i on
RECURSIVE SplitFrom(_, _, _, _, _)
SplitFrom(kind, version, s, i, piece) ==
    IF i > Len(s) THEN <<piece>>
    ELSE LET n == MatchLen(kind, version, s, i)
         IN  IF n > 0
             THEN <<piece>> \o SplitFrom(kind, version, s, i + n, <<>>)
             ELSE SplitFrom(kind, version, s, i + 1, Append(piece, s[i]))

re_split(kind, version, s) == SplitFrom(kind, version, s, 1, <<>>)

\* the loop over example_blocks: the messages of the blocks, in order
RECURSIVE BlockMessages(_, _)
BlockMessages(version, example_blocks) ==
    IF example_blocks = <<>> THEN <<>>
    ELSE LET parts == re_split("turn", version, Head(example_blocks))
             user_turn == strip(parts[2])
             agent_turn == strip(parts[3])
         IN  (IF Len(parts) >= 3 /\ user_turn # <<>> /\ agent_turn # <<>>
              THEN << <<"human", user_turn>>, <<"ai", agent_turn>> >>
              ELSE <<>>)
             \o BlockMessages(version, Tail(example_blocks))

\* parse_few_shot_examples(adaptive_suffix)
parse_few_shot_examples(version, adaptive_suffix) ==
    LET match == SearchHeader(version, adaptive_suffix)
        prompt_part == strip(SubSeq(adaptive_suffix, 1, match.start - 1))
        examples_part ==
            strip(SubSeq(adaptive_suffix, match.end + 1, Len(adaptive_suffix)))
        example_blocks == Tail(re_split("example", version, examples_part))
    IN  IF ~match.matched
        THEN [few_shot_messages |-> <<>>, prompt_part |-> adaptive_suffix]
        ELSE [few_shot_messages |-> BlockMessages(version, example_blocks),
              prompt_part |-> prompt_part]

\* how many example blocks a section may hold
MaxBlocks == 2

\* the turn marker as a version writes it
Turn(version, mark) ==
    IF version = "main" THEN <<"**", mark, "**">> ELSE <<mark>>

\* the bodies of example blocks: well formed, well formed in another casing,
\* without the Agent half, with an empty half, empty, in the other order, with
\* two User halves, with a third half, and without markers
BlockBodies(version) ==
    LET U == Turn(version, "User:")
        u == Turn(version, "user:")
        A == Turn(version, "Agent:")
        a == Turn(version, "AGENT:")
    IN  {<<" ">> \o U \o <<" ", "hi", " ", "there", "\n">> \o A \o <<" ", "yo", "\n">>,
         u \o <<"late">> \o a \o <<"sorry">>,
         U \o <<" ", "hi", "\n">>,
         U \o <<" ">> \o A \o <<" ", "yo">>,
         U \o <<" ", "hi", " ">> \o A \o <<"\n">>,
         A \o <<" ", "yo", " ">> \o U \o <<" ", "hi">>,
         U \o <<" ", "hi", " ">> \o U \o <<" ", "late">>,
         U \o <<"hi">> \o A \o <<"yo">> \o U \o <<"thanks">>,
         <<" ", "hi", "\n">>}

\* the section headers a version knows, and a suffix without a header
Headers(version) ==
    IF version = "main"
    THEN {<<"\n", "**", "Few-shot examples:", "**", "\n">>, <<"\n">>}
    ELSE {<<"\n", " ", "[FEW-SHOT EXAMPLES]", " ", "\n">>,
          <<"\n", "$$", "\n", "FEW-SHOT EXAMPLES", " ", "\n", "$$", "\n">>,
          <<"\n">>}

RECURSIVE BlockLists(_, _)
BlockLists(version, n) ==
    IF n = 0 THEN {<<>>}
    ELSE BlockLists(version, n - 1)
         \cup {Append(bs, b) : bs \in BlockLists(version, n - 1), b \in BlockBodies(version)}

RECURSIVE JoinBlocks(_, _)
JoinBlocks(blocks, number) ==
    IF blocks = <<>> THEN <<>>
    ELSE <<IF number = 1 THEN "Example 1:" ELSE IF number = 2 THEN "Example 2:"
           ELSE "example 3 :">>
         \o Head(blocks) \o JoinBlocks(Tail(blocks), number + 1)

\* a suffix: the prompt, a header, and the numbered example blocks
Suffixes ==
    UNION {{[version |-> v, marked |-> Len(h) > 1, blocks |-> bs,
             text |-> <<"Be", " ", "kind.">> \o h \o JoinBlocks(bs, 1)] :
                h \in Headers(v), bs \in BlockLists(v, MaxBlocks)} :
           v \in FewShotVersions}

InitFewShot ==
    /\ InitStore /\ InitIdle /\ InitNoReply /\ InitSimulator /\ InitNoRun
    /\ rubric = NoneVal
    /\ session = NoneVal
    /\ \E s \in Suffixes : few_shot = [input |-> s, done |-> FALSE]

\* parse_few_shot_examples(adaptive_suffix) returns
ParseFewShot ==
    /\ ~few_shot.done
    /\ few_shot' = [input |-> few_shot.input, done |-> TRUE]
                     @@ parse_few_shot_examples(few_shot.input.version, few_shot.input.text)
    /\ UNCHANGED <<tvars, hvars, jvars, rubric, session, simulator, yvars>>

NextFewShot == ParseFewShot

SpecFewShot == InitFewShot /\ [][NextFewShot]_vars

(* ------------------------- main.py: ChatSession -------------------------- *)

\* chat's menu
menu == (1 :> LATE) @@ (2 :> MISS) @@ (3 :> QUALITY) @@ (4 :> WRONG)
        @@ (5 :> PAYMENT) @@ (6 :> ADDRESS) @@ (7 :> COLD)

kw_exit == <<"e", "x", "i", "t">>
kw_final_confirmation == <<"h", "a", "s", " ", "t", "h", "i", "s", " ", "r", "e", "s", "o", "l", "v", "e", "d", " ", "y", "o", "u", "r", " ", "i", "s", "s", "u", "e">>
yes_replies == {<<"y", "e", "s">>, <<"y">>}

\* how many user messages a session may hand to the agent
MaxTurns == 2

\* what the user may type at the menu (0 stands for text that is no number), at
\* the "You: " prompt and at the yes/no prompt, and what the agent may answer
MenuInputs == {0, 1, 2, 9}
UserSays == {kw_exit, <<"E", "x", "i", "t">>, <<"l", "a", "t", "e">>}
ConfirmationInputs ==
    {<<"y", "e", "s">>, <<"Y", "E", "S">>, <<"Y">>, <<"n", "o">>, <<" ", "y", "e", "s">>, <<>>,
     <<"E", "x", "i", "t">>}
AgentOutputs ==
    {<<"H", "a", "s", " ", "t", "h", "i", "s", " ", "r", "e", "s", "o", "l", "v", "e", "d", " ", "y", "o", "u", "r", " ", "i", "s", "s", "u", "e", "?">>,
     <<"I", "'", "m", " ", "s", "o", " ", "s", "o", "r", "r", "y", ".", " ", "W", "h", "i", "c", "h", " ", "i", "t", "e", "m", "?">>,
     <<"C", "r", "e", "d", "i", "t", "s", " ", "h", "a", "v", "e", " ", "b", "e", "e", "n", " ", "a", "d", "d", "e", "d", ".">>}

\* f"{user_input} (My order ID is {self.assigned_order_id}, Issue type: {self.issue_label})"
ProcessedInput(user_input, order_id, issue_label) ==
    user_input \o <<" (My order ID is ">> \o order_id \o <<", Issue type: ">>
        \o issue_label \o <<")">>

\* the fallback's agent_output
FallbackOutput(status_output) ==
    <<"I'm sorry, there was an issue processing your request. Here's the latest status: ">>
        \o status_output \o <<". How can I assist further?">>

\* the loop body after the try: with the agent's output, the loop asks for the
\* final confirmation or goes back to the "You: " prompt
AfterOutput(sess, agent_output) ==
    LET is_final_confirmation == Contains(kw_final_confirmation, lower(agent_output))
    IN  [sess EXCEPT !.agent_output = agent_output,
                     !.pc = IF is_final_confirmation THEN "confirm" ELSE "prompt"]

\* mutant of InvokeRaised: no except clause, the exception leaves chat
InvokeRaisedUncaught(sess, status_output) ==
    [sess EXCEPT !.invoke = "raised", !.pc = "crashed"]

\* except Exception: the tracker's status is wrapped into the agent output
InvokeRaised(sess, status_output) ==
    AfterOutput([sess EXCEPT !.invoke = "raised"], FallbackOutput(status_output))

\* agent_executor.invoke returned: the memory of the executor saves the turn
InvokeReturned(sess, output) ==
    AfterOutput([sess EXCEPT !.invoke = "returned",
                             !.memory = @ \o << <<"human", ProcessedInput(sess.user_input,
                                                    sess.assigned_order_id, sess.issue_label)>>,
                                                 <<"ai", output>> >>],
                output)

\* mutant of ConfirmationReply: the reply is compared without lower()
ConfirmationReplyCaseSensitive(sess, confirmation) ==
    IF confirmation \in yes_replies
    THEN [sess EXCEPT !.confirmation = confirmation, !.resolved = TRUE,
                      !.pc = "ended", !.reported = TRUE]
    ELSE [sess EXCEPT !.confirmation = confirmation,
                      !.memory = Append(@, <<"human", confirmation>>), !.pc = "prompt"]

\* the yes/no branch: 'yes' ends the loop and the session is reported as
\* confirmed, any other reply is added to the memory and the loop continues
ConfirmationReply(sess, confirmation) ==
    IF lower(confirmation) \in yes_replies
    THEN [sess EXCEPT !.confirmation = confirmation, !.resolved = TRUE,
                      !.pc = "ended", !.reported = TRUE]
    ELSE [sess EXCEPT !.confirmation = confirmation,
                      !.memory = Append(@, <<"human", confirmation>>), !.pc = "prompt"]

\* the orders table is a file: it may hold an order of an earlier session
InitChat ==
    /\ db \in {EmptyDict,
               create_order(EmptyDict, GeneratedId[100000], LATE, TemplateFor(LATE)).store}
    /\ last = [op |-> "none"]
    /\ InitIdle /\ InitNoReply /\ InitSimulator /\ InitNoRun
    /\ rubric = NoneVal
    /\ few_shot = NoneVal
    /\ session = [pc |-> "menu", issue_label |-> NoneVal, assigned_order_id |-> NoneVal,
                  memory |-> <<>>, resolved |-> FALSE, reported |-> FALSE,
                  turns |-> 0, calls |-> 0, user_input |-> NoneVal,
                  agent_output |-> NoneVal, invoke |-> "none", confirmation |-> NoneVal]

\* the selection loop and, with a number of the menu, the order's creation
SelectIssue(selection, n) ==
    /\ session.pc = "menu"
    /\ IF selection \in DOMAIN menu
       THEN /\ AssignAndCreateOrder(NoneVal, menu[selection], n)
            /\ session' = IF last'.raised
                          THEN [session EXCEPT !.pc = "crashed",
                                               !.issue_label = menu[selection]]
                          ELSE [session EXCEPT !.pc = "prompt",
                                               !.issue_label = menu[selection],
                                               !.assigned_order_id = last'.ret[1]]
       ELSE UNCHANGED <<tvars, session>>
    /\ UNCHANGED <<hvars, jvars, rubric, few_shot, simulator, yvars>>

\* mutant of UserTurn: the input is compared with 'exit' without lower()
UserTurnCaseSensitive(user_input) ==
    /\ session.pc = "prompt"
    /\ session' =
          IF user_input = kw_exit
          THEN [session EXCEPT !.pc = "ended", !.user_input = user_input,
                               !.reported = session.resolved]
          ELSE [session EXCEPT !.pc = "agent", !.user_input = user_input,
                               !.turns = @ + 1, !.calls = 0, !.invoke = "none"]
    /\ user_input = kw_exit \/ session.turns < MaxTurns
    /\ UNCHANGED <<tvars, hvars, jvars, rubric, few_shot, simulator, yvars>>

\* user_input = input("You: "): 'exit' leaves the loop, anything else goes to
\* the agent
UserTurn(user_input) ==
    /\ session.pc = "prompt"
    /\ session' =
          IF lower(user_input) = kw_exit
          THEN [session EXCEPT !.pc = "ended", !.user_input = user_input,
                               !.reported = session.resolved]
          ELSE [session EXCEPT !.pc = "agent", !.user_input = user_input,
                               !.turns = @ + 1, !.calls = 0, !.invoke = "none"]
    /\ lower(user_input) = kw_exit \/ session.turns < MaxTurns
    /\ UNCHANGED <<tvars, hvars, jvars, rubric, few_shot, simulator, yvars>>

\* inside agent_executor.invoke the agent calls a tool
ChatAgentCallsTracker(order_id) ==
    /\ session.pc = "agent"
    /\ session.calls < MaxToolCalls
    /\ OrderTracker(order_id)
    /\ session' = [session EXCEPT !.calls = @ + 1]
    /\ UNCHANGED <<hvars, jvars, rubric, few_shot, simulator, yvars>>

ChatAgentCallsResolver(order_id, issue_type, details) ==
    /\ session.pc = "agent"
    /\ session.calls < MaxToolCalls
    /\ IssueResolver(order_id, issue_type, details, <<>>, <<>>)
    /\ session' = [session EXCEPT !.calls = @ + 1]
    /\ UNCHANGED <<hvars, jvars, rubric, few_shot, simulator, yvars>>

\* agent_executor.invoke returns its output
AgentReturns(output) ==
    /\ session.pc = "agent"
    /\ session' = InvokeReturned(session, output)
    /\ UNCHANGED <<tvars, hvars, jvars, rubric, few_shot, simulator, yvars>>

\* agent_executor.invoke raises: the driver calls the tracker itself
AgentRaises ==
    /\ session.pc = "agent"
    /\ OrderTracker(session.assigned_order_id)
    /\ session' = InvokeRaised(session, last'.ret)
    /\ UNCHANGED <<hvars, jvars, rubric, few_shot, simulator, yvars>>

\* confirmation = input("You: ") after the agent's final question
UserConfirms(confirmation) ==
    /\ session.pc = "confirm"
    /\ session' = ConfirmationReply(session, confirmation)
    /\ UNCHANGED <<tvars, hvars, jvars, rubric, few_shot, simulator, yvars>>

NextChat ==
    \/ \E selection \in MenuInputs, n \in OrderDraws : SelectIssue(selection, n)
    \/ \E user_input \in UserSays : UserTurn(user_input)
    \/ \E o \in ToolOrderIds : ChatAgentCallsTracker(o)
    \/ \E o \in ToolOrderIds, t \in AgentIssueTypes, d \in AgentDetails :
          ChatAgentCallsResolver(o, t, d)
    \/ \E output \in AgentOutputs : AgentReturns(output)
    \/ AgentRaises
    \/ \E confirmation \in ConfirmationInputs : UserConfirms(confirmation)

SpecChat == InitChat /\ [][NextChat]_vars

(* ---------------------- simulator.py: Simulator.__init__ ----------------- *)

\* what the templates file may be: missing, not parseable as YAML, empty, the
\* empty mapping {}, a YAML list, a scalar text, a number, or the templates
TemplateFiles ==
    {"missing", "syntax_error", "empty", "empty_mapping", "list", "text", "number",
     "templates"}

\* open(templates_file) and yaml.safe_load(file): the exception raised, or the
\* value loaded (None for an empty file)
safe_load(file) ==
    IF file = "missing" THEN [raised |-> "FileNotFoundError"]
    ELSE IF file = "syntax_error" THEN [raised |-> "YAMLError"]
    ELSE [raised |-> "",
          value |-> IF file = "empty" THEN [kind |-> "None", value |-> <<>>]
                    ELSE IF file = "empty_mapping" THEN [kind |-> "mapping", value |-> <<>>]
                    ELSE IF file = "list" THEN [kind |-> "list", value |-> <<LATE>>]
                    ELSE IF file = "text" THEN [kind |-> "str", value |-> LATE]
                    ELSE IF file = "number" THEN [kind |-> "int", value |-> <<>>]
                    ELSE [kind |-> "mapping", value |-> TemplateList]]

\* Simulator.__init__: load, then len(self.scenario_templates) in the print,
\* both inside the try; every exception is re-raised
SimulatorInit(file) ==
    LET loaded == safe_load(file)
    IN  IF loaded.raised # ""
        THEN [state |-> "raised", file |-> file, error |-> loaded.raised]
        ELSE IF loaded.value.kind \in {"None", "int"}
        THEN [state |-> "raised", file |-> file, error |-> "TypeError"]
        ELSE [state |-> "built", file |-> file, templates |-> loaded.value]

\* the simulator has not been constructed yet
InitConstruct ==
    /\ InitStore /\ InitIdle /\ InitNoReply /\ InitNoText /\ InitNoRun
    /\ simulator = [state |-> "none"]

\* simulator = Simulator(templates_file)
Construct(file) ==
    /\ simulator.state = "none"
    /\ simulator' = SimulatorInit(file)
    /\ UNCHANGED <<tvars, hvars, jvars, rubric, few_shot, session, yvars>>

\* simulator.assign_and_create_order(label=label) on the constructed simulator:
\* self.scenario_templates.get(label) raises on a value that is no mapping
AssignThrough(label, n) ==
    LET loaded == simulator.templates
        at == {i \in 1..Len(loaded.value) : loaded.value[i][1] = label}
        template == IF at = {} \/ DOMAIN loaded.value[LeastOf(at)][2] = {}
                    THEN EmptyDict ELSE loaded.value[LeastOf(at)][2]
        made == create_order(db, GeneratedId[n], label, template)
    IN  /\ simulator.state = "built"
        /\ IF loaded.kind # "mapping"
           THEN /\ last' = [op |-> "assign_and_create_order", user_input |-> NoneVal,
                            label |-> label, order_id |-> GeneratedId[n],
                            raised |-> TRUE, ret |-> NoneVal]
                /\ UNCHANGED db
           ELSE /\ db' = made.store
                /\ last' = [op |-> "assign_and_create_order", user_input |-> NoneVal,
                            label |-> label, order_id |-> GeneratedId[n],
                            raised |-> made.raised,
                            ret |-> IF made.raised THEN NoneVal
                                    ELSE <<GeneratedId[n], label>>]
        /\ UNCHANGED <<hvars, jvars, xvars, yvars>>

NextConstruct ==
    \/ \E file \in TemplateFiles : Construct(file)
    \/ \E label \in {LATE, MISS, BOGUS}, n \in OrderDraws : AssignThrough(label, n)

SpecConstruct == InitConstruct /\ [][NextConstruct]_vars

(* ------------- the ideal-response document at a program's start ---------- *)

\* ideal_responses.md as open() finds it: not there, there without a numbered
\* section, or there with the section of one or of two scenarios
IdealFiles == {"missing", "no sections", "one section", "sections"}

\* the titles and the texts of the numbered sections of the document
IdealSections ==
    << << <<"L", "A", "T", "E", " ", "(", "l", "a", "t", "e", ")">>,
          <<"**Ideal Flow**: User: ... Agent: ... (LATE)">> >>,
       << <<"M", "i", "s", "s">>,
          <<"**Ideal Flow**: User: ... Agent: ... (MISS)">> >> >>

\* what re.split finds in the document
SectionsOf(file) ==
    IF file = "sections" THEN IdealSections
    ELSE IF file = "one section" THEN SubSeq(IdealSections, 1, 1)
    ELSE <<>>

\* sections[i].strip().split('(')[0].strip()
BeforeParen(title) ==
    LET stripped == strip(title)
        cut == {i \in 1..Len(stripped) : stripped[i] = "("}
    IN  strip(IF cut = {} THEN stripped ELSE SubSeq(stripped, 1, LeastOf(cut) - 1))

\* the (\w+) of main.py's section pattern: the leading word of the title
LeadingWord(title) ==
    LET word == {LowerAlpha[i] : i \in 1..Len(LowerAlpha)}
                \cup {UpperAlpha[i] : i \in 1..Len(UpperAlpha)} \cup {"_"}
        stop == {i \in 1..Len(title) : title[i] \notin word}
    IN  IF stop = {} THEN title ELSE SubSeq(title, 1, LeastOf(stop) - 1)

\* the dict the loop over the sections builds, a later section replacing an
\* earlier one of the same key
RECURSIVE SectionDict(_, _)
SectionDict(program, sections) ==
    IF sections = <<>> THEN EmptyDict
    ELSE LET head == sections[Len(sections)]
             key == IF program = "test_evaluation" THEN upper(BeforeParen(head[1]))
                    ELSE LeadingWord(head[1])
         IN  (key :> head[2]) @@ SectionDict(program, SubSeq(sections, 1, Len(sections) - 1))

\* load_ideal_responses() of test_evaluation.py and of main.py: FileNotFoundError
\* is caught and {} returned; only test_evaluation.py prints the error
load_ideal_responses(program, file) ==
    IF file = "missing"
    THEN [raised |-> FALSE, printed |-> program = "test_evaluation", value |-> EmptyDict]
    ELSE [raised |-> FALSE, printed |-> FALSE,
          value |-> SectionDict(program, SectionsOf(file))]

NoIdealTemplate == <<"No ideal template found for this scenario.">>

\* evaluate_response(model, scenario, actual_response, ideal_responses, phase) of
\* test_evaluation.py: the message for a scenario without reference, else the
\* feedback line of the phase with the scores
SemanticEvaluation(scenario_label, ideal_responses, phase) ==
    IF scenario_label \notin DOMAIN ideal_responses
    THEN NoIdealTemplate
    ELSE <<"Phase ", phase, " Semantic Score: ...% | ... | Rubric Score: ...%">>

\* where the agent of a scenario may fail: in its first invoke, in its second,
\* or not at all
AgentFailures == {"phase 1", "phase 2", "none"}

Programs == {"test_evaluation", "main"}

InitStartup ==
    /\ InitStore /\ InitIdle /\ InitNoReply /\ InitNoText /\ InitSimulator
    /\ memories = NoneVal
    /\ \E program \in Programs, file \in IdealFiles :
          startup = [program |-> program, file |-> file, pc |-> "start",
                     printed |-> FALSE, ideal_responses |-> EmptyDict,
                     ran |-> 0, evaluations |-> <<>>]

\* main() of test_evaluation.py up to its loop, ChatSession.__init__ of main.py:
\* the reference document is loaded; an exception of the load ends the program
LoadIdealResponses ==
    LET loaded == load_ideal_responses(startup.program, startup.file)
    IN  /\ startup.pc = "start"
        /\ startup' = [startup EXCEPT !.pc = IF loaded.raised THEN "aborted" ELSE "ready",
                                      !.printed = loaded.printed,
                                      !.ideal_responses = loaded.value]
        /\ UNCHANGED <<tvars, hvars, jvars, xvars, memories>>

\* one pass of the loop of test_evaluation.main: test_scenario creates the order
\* of the scenario and evaluates each answer the agent gives before it fails
RunScenario(n, agent_fails) ==
    LET label == test_cases[startup.ran + 1]
        semantic_eval1 == SemanticEvaluation(label, startup.ideal_responses, "1")
        semantic_eval2 == SemanticEvaluation(label, startup.ideal_responses, "2")
    IN  /\ startup.program = "test_evaluation"
        /\ startup.pc = "ready"
        /\ startup.ran < NumCases
        /\ AssignAndCreateOrder(NoneVal, label, n)
        /\ startup' =
              [startup EXCEPT
                  !.pc = IF last'.raised THEN "crashed" ELSE "ready",
                  !.ran = IF last'.raised THEN @ ELSE @ + 1,
                  !.evaluations =
                      IF last'.raised \/ agent_fails = "phase 1" THEN @
                      ELSE IF agent_fails = "phase 2" THEN Append(@, semantic_eval1)
                      ELSE @ \o <<semantic_eval1, semantic_eval2>>]
        /\ UNCHANGED <<hvars, jvars, xvars, memories>>

\* ChatSession.chat of main.py: an issue of the menu is selected and its order
\* created
StartChat(selection, n) ==
    /\ startup.program = "main"
    /\ startup.pc = "ready"
    /\ selection \in DOMAIN menu
    /\ AssignAndCreateOrder(NoneVal, menu[selection], n)
    /\ startup' = [startup EXCEPT !.pc = IF last'.raised THEN "crashed" ELSE "chat",
                                  !.ran = IF last'.raised THEN @ ELSE @ + 1]
    /\ UNCHANGED <<hvars, jvars, xvars, memories>>

NextStartup ==
    \/ LoadIdealResponses
    \/ \E n \in OrderDraws, agent_fails \in AgentFailures : RunScenario(n, agent_fails)
    \/ \E selection \in MenuInputs, n \in OrderDraws : StartChat(selection, n)

SpecStartup == InitStartup /\ [][NextStartup]_vars

(* --------- MemoryManager (wellness_langchain_app/memory_manager.py) ------ *)

\* self.short_term_limit
short_term_limit == 10

\* how many add_memory calls a run makes
MaxAdds == 19

MemoryTypes == {"interaction", "action"}

\* the structure _load_memories returns when it finds nothing to read
FreshMemories == [short_term |-> <<>>, long_term |-> <<>>, compaction_count |-> 0]

\* _load_memories: the saved structure; the fresh one for a file that is
\* missing, empty or not JSON
load_memories(file) ==
    IF file.kind = "json" THEN file.memories ELSE FreshMemories

\* memories["short_term"][-2:]
LastTwo(s) == IF Len(s) <= 2 THEN s ELSE SubSeq(s, Len(s) - 1, Len(s))

\* the period of a batch of short-term memories
PeriodOf(short_term) ==
    [start |-> short_term[1].timestamp, end |-> short_term[Len(short_term)].timestamp]

\* mutant of compact_memories: the except branch does not cut short_term
compact_memories_error_keeps_all(mems, llm_raises) ==
    IF Len(mems.short_term) < 3 THEN mems
    ELSE IF ~llm_raises
    THEN [short_term |-> LastTwo(mems.short_term),
          long_term |-> Append(mems.long_term,
                               [summary |-> <<"summary by the model">>,
                                period |-> PeriodOf(mems.short_term),
                                original_count |-> Len(mems.short_term)]),
          compaction_count |-> mems.compaction_count + 1]
    ELSE [mems EXCEPT
            !.long_term = Append(@, [summary |-> <<"Batch of ">>
                                                   \o Decimal(Len(mems.short_term))
                                                   \o <<" interactions">>,
                                     period |-> PeriodOf(mems.short_term)])]

\* _compact_memories: the summary of the model, or the batch entry when the call
\* of the model raises, goes to long_term and short_term keeps its last two
compact_memories(mems, llm_raises) ==
    IF Len(mems.short_term) < 3 THEN mems
    ELSE IF ~llm_raises
    THEN [short_term |-> LastTwo(mems.short_term),
          long_term |-> Append(mems.long_term,
                               [summary |-> <<"summary by the model">>,
                                period |-> PeriodOf(mems.short_term),
                                original_count |-> Len(mems.short_term)]),
          compaction_count |-> mems.compaction_count + 1]
    ELSE [mems EXCEPT
            !.long_term = Append(@, [summary |-> <<"Batch of ">>
                                                   \o Decimal(Len(mems.short_term))
                                                   \o <<" interactions">>,
                                     period |-> PeriodOf(mems.short_term)]),
            !.short_term = LastTwo(@)]

\* add_memory: what _save_memories writes, and whether the model was called
add_memory(file, memory_type, content, now, llm_raises) ==
    LET loaded == load_memories(file)
        memory_entry == [type |-> memory_type, content |-> content, timestamp |-> now]
        appended == [loaded EXCEPT !.short_term = Append(@, memory_entry)]
        compacts == Len(appended.short_term) >= short_term_limit
    IN  [saved |-> IF compacts THEN compact_memories(appended, llm_raises) ELSE appended,
         llm |-> IF ~compacts \/ Len(appended.short_term) < 3 THEN "not called"
                 ELSE IF llm_raises THEN "raised" ELSE "returned"]

\* the memory file of the user before the first call: not there, empty, or not
\* JSON
InitMemory ==
    /\ InitStore /\ InitIdle /\ InitNoReply /\ InitNoText /\ InitSimulator
    /\ startup = NoneVal
    /\ \E kind \in {"missing", "empty", "corrupted"} :
          memories = [file |-> [kind |-> kind], clock |-> 0, llm |-> "not called"]

\* mm.add_memory(user_id, memory_type, content) at the clock's next tick
AddMemory(memory_type, llm_raises) ==
    LET now == memories.clock + 1
        added == add_memory(memories.file, memory_type, <<"content">>, now, llm_raises)
    IN  /\ memories.clock < MaxAdds
        /\ llm_raises => added.llm = "raised"
        /\ memories' = [file |-> [kind |-> "json", memories |-> added.saved],
                        clock |-> now, llm |-> added.llm]
        /\ UNCHANGED <<tvars, hvars, jvars, xvars, startup>>

NextMemory == \E memory_type \in MemoryTypes, llm_raises \in BOOLEAN :
                  AddMemory(memory_type, llm_raises)

SpecMemory == InitMemory /\ [][NextMemory]_vars

(* ------------------------------ properties ------------------------------ *)

\* the confirmation marker of a details text: "confirm", in any letter case
HasMarker(details) ==
    \E i \in 1..Len(details) :
        /\ i + 6 <= Len(details)
        /\ \A j \in 0..6 :
              details[i + j] \in << {"c", "C"}, {"o", "O"}, {"n", "N"}, {"f", "F"},
                                    {"i", "I"}, {"r", "R"}, {"m", "M"} >>[j + 1]

\* C1: a call of IssueResolverTool._run with issue type "late_delivery" whose
\* details lack the confirmation marker returns the confirmation-required
\* rejection and leaves every order as it was; with the marker in the details it
\* writes the late-delivery resolution as the order's note and returns a
\* confirmation that states the delivery credits. For every order and store.
C1_LateDeliveryGate ==
    [][(last'.op = "issue_resolver" /\ last'.issue_type = late_delivery) =>
          IF HasMarker(last'.details)
          THEN /\ Contains(LateResolution, last'.ret)
               /\ last'.order_id \in DOMAIN db =>
                     /\ last'.order_id \in DOMAIN db'
                     /\ db'[last'.order_id].resolution_note = LateResolution
          ELSE /\ last'.ret = ConfirmationRequired
               /\ db' = db]_vars

\* C1 witness: a confirmed late_delivery call has just written the note of an
\* order in the store
C1_Witness ==
    /\ last.op = "issue_resolver"
    /\ last.issue_type = late_delivery
    /\ HasMarker(last.details)
    /\ last.order_id \in DOMAIN db
    /\ db[last.order_id].resolution_note = LateResolution

\* C2: a call of IssueResolverTool._run whose issue type is "TRACK" in any
\* letter case writes no resolution note to any order and returns the
\* tracking-redirect message, whatever the other arguments.
C2_TrackNeverWrites ==
    [][(last'.op = "issue_resolver" /\ upper(last'.issue_type) = TRACK) =>
          /\ last'.ret = TrackRedirect
          /\ db' = db]_vars

\* C2 witness: a lower-case "track" call on an order in the store was redirected
C2_Witness ==
    /\ last.op = "issue_resolver"
    /\ upper(last.issue_type) = TRACK
    /\ last.issue_type # TRACK
    /\ last.order_id \in DOMAIN db
    /\ last.ret = TrackRedirect

\* C4 as stated: once an order's resolution note is set, no later call changes
\* it, and no order leaves the store.
C4_NoteSetOnce ==
    [][\A o \in DOMAIN db :
          /\ o \in DOMAIN db'
          /\ db[o].resolution_note # NoneVal =>
                db'[o].resolution_note = db[o].resolution_note]_vars

\* C4, amended: no order leaves the store and a note that is set is never
\* null again; a later issue_resolver call that reaches the write overwrites the
\* note with its own resolution.
C4_NoteNeverCleared ==
    [][/\ \A o \in DOMAIN db :
             /\ o \in DOMAIN db'
             /\ db[o].resolution_note # NoneVal => db'[o].resolution_note # NoneVal
       /\ (last'.op = "issue_resolver" /\ last'.note # NoneVal
           /\ last'.order_id \in DOMAIN db) =>
             db'[last'.order_id].resolution_note = last'.note]_vars

\* C4 witness: an order that already carried a note has just been given a
\* different one by a second issue_resolver call
C4_Witness ==
    /\ last.op = "issue_resolver"
    /\ last.order_id \in DOMAIN db
    /\ last.prior # NoneVal
    /\ last.note # NoneVal
    /\ last.note # last.prior
    /\ db[last.order_id].resolution_note = last.note

\* C5: OrderTrackerTool._run on an order whose note is set returns a string that
\* carries the note's text and not the status-and-ETA text of an unresolved
\* order; on an order whose note is null it returns the status and, when the
\* order has one, the ETA.
C5_TrackerSurfacesNote ==
    (last.op = "order_tracker" /\ last.order_id \in DOMAIN db) =>
        LET order == db[last.order_id]
            has_eta == order.eta # NoneVal /\ order.eta # <<>>
        IN  IF order.resolution_note # NoneVal /\ order.resolution_note # <<>>
            THEN /\ Contains(order.resolution_note, last.ret)
                 /\ ~Contains(<<" ETA: ">>, last.ret)
                 /\ ~Contains(<<" status is '">>, last.ret)
            ELSE /\ Contains(<<" status is '">> \o order.status, last.ret)
                 /\ has_eta => Contains(<<" ETA: ">> \o order.eta, last.ret)
                 /\ ~has_eta => ~Contains(<<" ETA: ">>, last.ret)

\* C5 witness: the tracker was called on an order that has an ETA and a note
C5_Witness ==
    /\ last.op = "order_tracker"
    /\ last.order_id \in DOMAIN db
    /\ db[last.order_id].eta # NoneVal
    /\ db[last.order_id].resolution_note # NoneVal
    /\ Contains(db[last.order_id].resolution_note, last.ret)

\* C6: OrderTrackerTool._run with an order id that is not in the store returns
\* the "not found" string for that id and does not raise, in every store state.
C6_TrackerNotFound ==
    (last.op = "order_tracker" /\ last.order_id \notin DOMAIN db) =>
        /\ ~last.raised
        /\ last.ret = <<"Error: Order ID ">> \o last.order_id \o <<" not found.">>

\* C6 witness: the tracker was asked for an id the store lacks while the store
\* holds another order
C6_Witness ==
    /\ last.op = "order_tracker"
    /\ last.order_id \notin DOMAIN db
    /\ DOMAIN db # {}
    /\ Contains(<<" not found.">>, last.ret)

\* C7 as stated: assign_and_create_order(label=L), L a label of the templates,
\* returns (order_id, L) in every store state, and the store then holds an order
\* under that id whose issue label is L and whose note is null.
C7_CreateKnownLabel ==
    (last.op = "assign_and_create_order" /\ last.label \in TemplateLabels) =>
        /\ ~last.raised
        /\ last.ret = <<last.order_id, last.label>>
        /\ last.order_id \in DOMAIN db
        /\ db[last.order_id].issue_label = last.label
        /\ db[last.order_id].resolution_note = NoneVal

\* C8 as stated: assign_and_create_order with a label that is no key of the
\* templates does not raise and persists an order with that label, status
\* 'unknown', no items, no eta and no note.
C8_CreateUnknownLabel ==
    (last.op = "assign_and_create_order" /\ last.label # NoneVal /\ last.label # <<>>
     /\ last.label \notin TemplateLabels) =>
        /\ ~last.raised
        /\ last.order_id \in DOMAIN db
        /\ db[last.order_id] = [status |-> status_unknown, items |-> <<"[", "]">>,
                                eta |-> NoneVal, issue_label |-> last.label,
                                resolution_note |-> NoneVal]

\* C9: update_order_resolution is an idempotent overwrite: a second application
\* with the same (order_id, note) leaves the store as the first left it; with an
\* order_id the store lacks it raises nothing, changes nothing and creates no order.
C9_UpdateIdempotent ==
    [][(last'.op = "issue_resolver" /\ last'.note # NoneVal) =>
          /\ ~last'.raised
          /\ db' = update_order_resolution(db, last'.order_id, last'.note)
          /\ update_order_resolution(db', last'.order_id, last'.note) = db'
          /\ DOMAIN db' = DOMAIN db
          /\ last'.order_id \notin DOMAIN db => db' = db
          /\ (last.op = "issue_resolver" /\ last.order_id = last'.order_id
              /\ last.note = last'.note) => db' = db]_vars

\* C9 witness: a note was overwritten in a store that also lacks the other id
C9_Witness ==
    /\ last.op = "issue_resolver"
    /\ last.note # NoneVal
    /\ last.order_id \in DOMAIN db
    /\ db[last.order_id].resolution_note = last.note
    /\ \E o \in ToolOrderIds : o \notin DOMAIN db

\* the note of the order the running scenario was assigned, None without one
AssignedNote(store, order_id) ==
    IF order_id # NoneVal /\ order_id \in DOMAIN store
    THEN store[order_id].resolution_note ELSE NoneVal

\* C3 as stated: in a harness run the assigned order's note is null when the
\* Phase-1 turn ends and becomes non-null only during the Phase-2 turn.
C3_HeldUntilPhase2 ==
    [][(AssignedNote(db, assigned) = NoneVal /\ AssignedNote(db', assigned) # NoneVal)
          => pc = "phase2"]_vars

\* C3, amended: the assigned order's note is null when the Phase-1 turn begins,
\* and it becomes non-null only through an issue_resolver call the agent makes
\* for that order during one of its turns (Phase 1, the corrective invoke or
\* Phase 2), a call that is no TRACK call and, if its type is late_delivery,
\* carries the confirmation marker: the tool holds back only late-delivery
\* resolutions without the marker, in every phase.
C3_OnlyGateHoldsBack ==
    [][/\ (pc = "main" /\ pc' = "phase1") => AssignedNote(db', assigned') = NoneVal
       /\ (AssignedNote(db, assigned) = NoneVal /\ AssignedNote(db', assigned) # NoneVal) =>
             /\ pc \in AgentTurns
             /\ last'.op = "issue_resolver"
             /\ last'.order_id = assigned
             /\ upper(last'.issue_type) # TRACK
             /\ last'.issue_type = late_delivery => HasMarker(last'.details)]_vars

\* C3 witness: the Phase-1 turn has ended and the assigned order carries a note
C3_Witness ==
    /\ pc = "eval1"
    /\ AssignedNote(db, assigned) # NoneVal

\* whether a prose text holds a brace
HasBrace(text) == \E i \in 1..Len(text) : text[i] \in {"{", "}"}

Member(v, key) ==
    IF v[1] = "obj" /\ \E i \in 1..Len(v[3]) : v[3][i][1] = key
    THEN v[3][CHOOSE i \in 1..Len(v[3]) : v[3][i][1] = key][2]
    ELSE NoneVal

\* the all-zero default result with failure_modes ["evaluation_error"]
IsDefaultResult(v) ==
    /\ \A i \in 1..6 : Member(v, ReportKeys[i]) = JsonNumber("0")
    /\ Member(v, "failure_modes") = <<"list", "[evaluation_error]", <<>> >>

\* the reply has no '{' ... '}' pair, or the text between the first '{' and the
\* last '}' is not valid JSON
NoJsonInReply ==
    \/ ~\E i, j \in 1..Len(reply.text) :
            i < j /\ reply.text[i] = "{" /\ reply.text[j] = "}"
    \/ parse_llm_response(reply.text).raised

\* C11: when llm.invoke returned a reply that has no '{' ... '}' pair or whose
\* extracted text is not valid JSON, evaluate_response returns the all-zero
\* default result with failure_modes ["evaluation_error"] and does not raise.
C11_ParseFailureGivesDefault ==
    (judged.state # "none" /\ judged.invoked /\ NoJsonInReply) =>
        (judged.state = "returned" /\ IsDefaultResult(judged.result))

\* C11 witness: a reply with a brace pair around invalid JSON was answered with
\* the default result
C11_Witness ==
    /\ judged.state = "returned"
    /\ judged.invoked
    /\ \E i, j \in 1..Len(reply.text) :
            i < j /\ reply.text[i] = "{" /\ reply.text[j] = "}"
    /\ NoJsonInReply
    /\ IsDefaultResult(judged.result)

\* C12 as stated: when llm.invoke raises, evaluate_response returns the zeroed
\* report tagged evaluation_error instead of raising.
C12_InvokeFailureGivesDefault ==
    (judged.state # "none" /\ ~judged.invoked) =>
        (judged.state = "returned" /\ IsDefaultResult(judged.result))

\* a result with the five dimension scores, each between 0 and 10, and
\* overall_score, justification, strengths, weaknesses and failure_modes
IsScoreReport(v) ==
    /\ \A i \in 1..Len(ReportKeys) : Member(v, ReportKeys[i]) # NoneVal
    /\ \A i \in 1..5 :
          /\ Member(v, ReportKeys[i])[1] = "num"
          /\ NumberOf[Member(v, ReportKeys[i])[2]] \in 0..10

\* C13 as stated: every result evaluate_response returns, for any model reply,
\* is a score report: five dimension scores in 0..10 and the five other fields.
C13_ResultIsScoreReport ==
    judged.state = "returned" => IsScoreReport(judged.result)

\* C14: in semantic_rubric_scores every category score lies between 0 and 100;
\* adding a phrase to the text never decreases a category's score, an added
\* match of a category still below its target strictly increases it, and once
\* the target is met the score is 100 and stays 100.
C14_RubricMonotonic ==
    [][\A i \in 1..Len(RubricCats) :
          LET cat == RubricCats[i]
              before == rubric.matches[cat]
              after == rubric'.matches[cat]
          IN  /\ rubric'.scores[cat] >= rubric.scores[cat]
              /\ rubric'.scores[cat] \in 0..1000
              /\ (after > before /\ before < TARGET_MATCHES(cat)) =>
                    rubric'.scores[cat] > rubric.scores[cat]
              /\ before >= TARGET_MATCHES(cat) =>
                    (rubric.scores[cat] = 1000 /\ rubric'.scores[cat] = 1000)]_vars

\* C14 witness: after the phrases were added the text has more accuracy matches
\* than the target and scores 100 for accuracy
C14_Witness ==
    /\ rubric.added = MaxPhrases
    /\ rubric.matches["accuracy"] > TARGET_MATCHES("accuracy")
    /\ rubric.scores["accuracy"] = 1000

\* the text after the first marker of a kind in a block, up to the next marker
\* or the end of the block, stripped; <<>> without such a marker
HalfText(version, block, marks) ==
    LET n == IF version = "main" THEN 3 ELSE 1
        IsMark(i, ms) == MatchLen("turn", version, block, i) > 0
                            /\ block[i + (n - 1) \div 2] \in ms
        at == {i \in 1..Len(block) : IsMark(i, marks)}
        first == LeastOf(at)
        nexts == {i \in (first + n)..Len(block) : IsMark(i, TurnMarks)}
        stop == IF nexts = {} THEN Len(block) + 1 ELSE LeastOf(nexts)
    IN  IF at = {} THEN <<>> ELSE strip(SubSeq(block, first + n, stop - 1))

\* one (user, agent) pair for each block with a non-empty User part and a
\* non-empty Agent part, in order
RECURSIVE ExpectedMessages(_, _)
ExpectedMessages(version, blocks) ==
    IF blocks = <<>> THEN <<>>
    ELSE LET user == HalfText(version, Head(blocks), {"User:", "user:"})
             agent == HalfText(version, Head(blocks), {"Agent:", "AGENT:"})
         IN  (IF user # <<>> /\ agent # <<>>
              THEN << <<"human", user>>, <<"ai", agent>> >> ELSE <<>>)
             \o ExpectedMessages(version, Tail(blocks))

\* C15 as stated: for a marked few-shot section parse_few_shot_examples returns
\* one (user, agent) pair for each example block with a non-empty User part and
\* a non-empty Agent part, in order, the text after 'User:' as the human message
\* and the text after 'Agent:' as the agent message, and skips the other blocks.
C15_PairsOfWellFormedBlocks ==
    (few_shot.done /\ few_shot.input.marked) =>
        few_shot.few_shot_messages
            = ExpectedMessages(few_shot.input.version, few_shot.input.blocks)

\* C16: in ChatSession.chat, when invoking the agent raises, the driver calls
\* the order tracker for the assigned order and uses the apology that embeds
\* the tracker's status as the agent output; the session is not ended or
\* crashed by it, the store is untouched, and the loop goes on to a user prompt.
C16_FallbackOnAgentFailure ==
    [][(session.pc = "agent" /\ session'.invoke = "raised") =>
          /\ last'.op = "order_tracker"
          /\ last'.order_id = session.assigned_order_id
          /\ Len(session'.agent_output) > 2
          /\ Head(session'.agent_output) = "I'm sorry, there was an issue processing your request. Here's the latest status: "
          /\ Contains(last'.ret, session'.agent_output)
          /\ session'.pc \in {"prompt", "confirm"}
          /\ session'.resolved = session.resolved
          /\ session'.memory = session.memory
          /\ db' = db]_vars

\* C16 witness: after a turn that ended in the fallback, the next user message
\* is with the agent
C16_Witness ==
    /\ session.pc = "agent"
    /\ session.turns = 2
    /\ session.agent_output # NoneVal
    /\ Head(session.agent_output) = "I'm sorry, there was an issue processing your request. Here's the latest status: "

\* 'yes' or 'y' in any casing
YesAnyCasing(text) ==
    /\ Len(text) \in {1, 3}
    /\ text[1] \in {"y", "Y"}
    /\ Len(text) = 3 => (text[2] \in {"e", "E"} /\ text[3] \in {"s", "S"})

\* C17: an agent turn asks the yes/no question exactly when its output contains
\* the confirmation-request phrase, and asks it once; 'yes' or 'y' in any casing
\* ends the session with resolved true, any other reply is appended to the
\* memory as a user message and the loop continues with resolved false; the
\* session is reported as confirmed only when it ended through such a 'yes'.
C17_FinalConfirmation ==
    [][/\ (session.pc = "agent" /\ session'.pc # "agent") =>
              (session'.pc = "confirm"
                  <=> Contains(kw_final_confirmation, lower(session'.agent_output)))
       /\ session'.pc = "confirm" => session.pc = "agent"
       /\ session.pc = "confirm" =>
              IF YesAnyCasing(session'.confirmation)
              THEN session'.pc = "ended" /\ session'.resolved /\ session'.reported
              ELSE /\ session'.pc = "prompt"
                   /\ ~session'.resolved
                   /\ session'.memory
                        = Append(session.memory, <<"human", session'.confirmation>>)
       /\ (session'.reported /\ ~session.reported) =>
              (session.pc = "confirm" /\ YesAnyCasing(session'.confirmation))
       /\ session.pc # "confirm" => session'.resolved = session.resolved]_vars

\* C17 witness: a session that ended confirmed by 'YES' after an earlier 'no'
C17_Witness ==
    /\ session.pc = "ended"
    /\ session.resolved /\ session.reported
    /\ session.confirmation = <<"Y", "E", "S">>
    /\ \E i \in 1..Len(session.memory) : session.memory[i] = <<"human", <<"n", "o">> >>

\* C18: in test_scenario the corrective invoke follows the first Phase-1 output
\* exactly when that output holds a resolution cue, and at most once in a
\* scenario; the Phase-1 evaluation is given the output and the tool calls of
\* the last Phase-1 invoke (the corrected ones after a correction), and Phase 2
\* is invoked only after it.
C18_OneCorrection ==
    [][/\ (pc = "phase1" /\ pc' \in {"corrective", "eval1"}) =>
              (pc' = "corrective" <=> HasCue(scenario'.first_output))
       /\ (pc' = "corrective" /\ pc # "corrective") => pc = "phase1"
       /\ (pc = "corrective" /\ scenario'.corrections # scenario.corrections)
              => pc' = "eval1"
       /\ scenario'.corrections <= 1
       /\ (pc = "eval1" /\ pc' = "phase2") =>
              /\ scenario'.evaluated1.agent_response = scenario.response.output
              /\ scenario'.evaluated1.tool_calls = scenario.response.intermediate_steps
              /\ scenario.corrections = 1 <=> HasCue(scenario.first_output)
              /\ ~scenario.invoked2
       /\ (pc' = "phase2" /\ pc # "phase2") => pc = "eval1"]_vars

\* C18 witness: Phase 2 starts after a correction; the Phase-1 evaluation was
\* given the corrected output and the tool call of the corrective invoke
C18_Witness ==
    /\ pc = "phase2"
    /\ scenario.corrections = 1
    /\ HasCue(scenario.first_output)
    /\ scenario.evaluated1.agent_response # scenario.first_output
    /\ scenario.evaluated1.tool_calls = <<"order_tracker">>

\* C19 as stated: no failure inside a scenario ends the batch: main holds one
\* result for every scenario it has been through and reaches the report with
\* one result per test case.
C19_BatchSurvives ==
    /\ pc # "crashed"
    /\ pc = "main" => Len(results) = case - 1
    /\ pc = "report" => Len(results) = NumCases

\* C20 as stated: constructing a Simulator fails whenever the templates file is
\* missing or malformed (anything but a mapping of templates), and no Simulator
\* exists with a partial or an empty set of templates.
C20_NoSimulatorWithoutTemplates ==
    simulator.state = "built" =>
        /\ simulator.file = "templates"
        /\ simulator.templates.kind = "mapping"
        /\ simulator.templates.value # <<>>

\* C21: with ideal_responses.md missing the program aborts at startup: it never
\* gets past the load, no order is created and no scenario is run.
C21_MissingReferenceAborts ==
    startup.file = "missing" =>
        /\ startup.pc \in {"start", "aborted"}
        /\ db = EmptyDict
        /\ startup.ran = 0

\* C22 as stated: after the issue was selected, 'exit' in any casing typed at a
\* "You:" prompt of the conversation (the free-text prompt or the yes/no prompt)
\* ends the loop, and the session is not marked resolved.
C22_ExitEndsLoop ==
    [][(\/ session.pc = "prompt" /\ lower(session'.user_input) = kw_exit
        \/ session.pc = "confirm" /\ lower(session'.confirmation) = kw_exit)
          => (session'.pc = "ended" /\ ~session'.resolved /\ ~session'.reported)]_vars

\* C22, amended: 'exit' in any casing typed at the free-text prompt ends the
\* loop with the session not resolved, the store and the memory as they were;
\* typed at the yes/no prompt it is a reply other than 'yes': it is added to the
\* memory as a user message and the loop goes on to the next free-text prompt,
\* the session not resolved.
C22_ExitAtFreeTextPrompt ==
    [][/\ (session.pc = "prompt" /\ lower(session'.user_input) = kw_exit) =>
              /\ session'.pc = "ended"
              /\ ~session'.resolved /\ ~session'.reported
              /\ session'.memory = session.memory
              /\ db' = db
       /\ (session.pc = "prompt" /\ lower(session'.user_input) # kw_exit) =>
              session'.pc = "agent"
       /\ (session.pc = "confirm" /\ lower(session'.confirmation) = kw_exit) =>
              /\ session'.pc = "prompt"
              /\ ~session'.resolved
              /\ session'.memory
                    = Append(session.memory, <<"human", session'.confirmation>>)]_vars

\* C22 witness: the session ended by 'Exit' at the free-text prompt, after an
\* 'Exit' at the yes/no prompt had only been added to the memory
C22_Witness ==
    /\ session.pc = "ended"
    /\ session.user_input = <<"E", "x", "i", "t">>
    /\ ~session.resolved
    /\ \E i \in 1..Len(session.memory) :
          session.memory[i] = <<"human", <<"E", "x", "i", "t">> >>

\* C23: an order's note is null until issue_resolver succeeds on that order. A
\* new order has a null note; a note turns non-null, or changes, only in a step
\* that is an issue_resolver call for that order id returning the 'processed'
\* confirmation with that note (never a TRACK redirect or a late-delivery
\* rejection); and a non-null note never becomes null again.
C23_NoteOnlyBySuccess ==
    [][\A o \in DOMAIN db' :
          LET before == IF o \in DOMAIN db THEN db[o].resolution_note ELSE NoneVal
              after == db'[o].resolution_note
          IN  /\ after # before =>
                    /\ o \in DOMAIN db
                    /\ last'.op = "issue_resolver"
                    /\ last'.order_id = o
                    /\ last'.ret = Processed(o, after)
                    /\ last'.ret \notin {TrackRedirect, ConfirmationRequired}
              /\ before # NoneVal => after # NoneVal]_vars

\* C23 witness: an order still null after a rejected late-delivery call and a
\* TRACK redirect on it stand beside an order whose note a successful call set
C23_Witness ==
    /\ last.op = "issue_resolver"
    /\ last.order_id \in DOMAIN db
    /\ last.ret \in {TrackRedirect, ConfirmationRequired}
    /\ db[last.order_id].resolution_note = NoneVal
    /\ \E o \in DOMAIN db : db[o].resolution_note # NoneVal

\* C24: whenever IssueResolverTool._run has returned the success confirmation
\* "I have processed your request for order X. The resolution is: R", the order
\* X is in the store and its persisted note is exactly R.
C24_ProcessedMeansPersisted ==
    (last.op = "issue_resolver" /\ last.note # NoneVal
     /\ last.ret = Processed(last.order_id, last.note)) =>
        /\ last.order_id \in DOMAIN db
        /\ db[last.order_id].resolution_note = last.note

\* the resolution of the final else branch of IssueResolverTool._run
GenericResolution(details) ==
    <<"your issue ('">> \o details \o <<"') has been logged and escalated for review.">>

\* an issue type without its surrounding whitespace and in upper case, for the
\* issue types of the alias runs
RECURSIVE TabLabel(_)
TabLabel(T) ==
    IF T = {} THEN <<>>
    ELSE LET t == CHOOSE x \in T : TRUE
         IN  (t :> upper(strip(t))) @@ TabLabel(T \ {t})

LabelSpelled == TabLabel(AliasIssueTypes)

\* C25: a call of IssueResolverTool._run that passes a scenario label (LATE,
\* QUALITY, MISS, WRONG, PAYMENT, ADDRESS, COLD) in any casing and with
\* surrounding whitespace returns the same string and leaves the same store as
\* the call passing the label's internal category with the same other arguments;
\* a call whose issue type is neither such a label, nor an internal category,
\* nor TRACK returns the confirmation of the generic 'logged and escalated'
\* resolution and hands that resolution to the store as the order's note.
C25_AliasNormalization ==
    [][last'.op = "issue_resolver" =>
          LET o == last'.order_id
              label == LabelSpelled[last'.issue_type]
              generic == GenericResolution(last'.details)
          IN  IF label \in DOMAIN alias_map
              THEN LET same == IssueResolverRun(db, o, alias_map[label], last'.details,
                                                last'.missing_items, last'.refund_amount)
                   IN  last'.ret = same.ret /\ db' = same.store
              ELSE IF label = TRACK
                      \/ last'.issue_type \in {alias_map[l] : l \in DOMAIN alias_map}
              THEN TRUE
              ELSE /\ last'.ret = Processed(o, generic)
                   /\ last'.note = generic
                   /\ db' = update_order_resolution(db, o, generic)
                   /\ o \in DOMAIN db => db'[o].resolution_note = generic]_vars

\* C25 witness: a padded mixed-case " \tCold\n" call has written the cold-food
\* complaint as the note of an order in the store
C25_Witness ==
    /\ last.op = "issue_resolver"
    /\ last.issue_type = <<" ", "\t", "C", "o", "l", "d", "\n">>
    /\ last.order_id \in DOMAIN db
    /\ db[last.order_id].resolution_note = DispatchOf[<<cold_food, <<>>, <<>>, <<>>>>].text
    /\ last.ret = Processed(last.order_id, db[last.order_id].resolution_note)

C27_ToolFrame ==
    [][/\ last'.op = "order_tracker" => db' = db
       /\ last'.op = "issue_resolver" =>
             /\ DOMAIN db' = DOMAIN db
             /\ \A o \in DOMAIN db :
                   /\ db'[o].status = db[o].status
                   /\ db'[o].items = db[o].items
                   /\ db'[o].eta = db[o].eta
                   /\ db'[o].issue_label = db[o].issue_label
                   /\ o # last'.order_id => db'[o].resolution_note = db[o].resolution_note
             /\ last'.ret \in {TrackRedirect, ConfirmationRequired} => db' = db]_vars

\* C27 witness: a call has written the note of one of two stored orders, the
\* other one still without a note
C27_Witness ==
    /\ last.op = "issue_resolver"
    /\ last.order_id \in DOMAIN db
    /\ last.note # NoneVal
    /\ db[last.order_id].resolution_note = last.note
    /\ \E o \in DOMAIN db : o # last.order_id /\ db[o].resolution_note = NoneVal

\* C28: no call of IssueResolverTool._run whose issue type is 'late_delivery' or
\* 'LATE', letter case and surrounding whitespace ignored, writes a resolution
\* note unless its details contain the confirmation marker.
C28_GateNotBypassedBySpelling ==
    [][(/\ last'.op = "issue_resolver"
        /\ lower(strip(last'.issue_type)) \in {late_delivery, lower(LATE)}
        /\ ~HasMarker(last'.details)) =>
          (last'.note = NoneVal /\ db' = db)]_vars

\* C29: after a call of assign_and_create_order, whether it created an order or
\* its generated id collided with a stored one, every order stored before is
\* still stored with the same status, items, eta, issue label and note; and no
\* step lowers the number of stored orders.
C29_CreateKeepsOrders ==
    [][/\ last'.op = "assign_and_create_order" =>
             \A o \in DOMAIN db : o \in DOMAIN db' /\ db'[o] = db[o]
       /\ Cardinality(DOMAIN db') >= Cardinality(DOMAIN db)]_vars

\* C29 witness: a creation has just raised on an id whose stored order, with a
\* note set, is still there
C29_Witness ==
    /\ last.op = "assign_and_create_order"
    /\ last.raised
    /\ last.order_id \in DOMAIN db
    /\ db[last.order_id].resolution_note # NoneVal
    /\ Cardinality(DOMAIN db) = 2

\* C30: after every add_memory call the saved short_term list holds fewer than
\* short_term_limit (10) entries; a call that brings the list to 10 appends
\* exactly one long_term entry and leaves short_term with its 2 most recent
\* entries, whether the call of the summarizing model returned or raised; any
\* other call appends its entry and leaves long_term alone; long_term never
\* shrinks.
C30_ShortTermBounded ==
    [][LET before == load_memories(memories.file)
           after == memories'.file.memories
           grown == Len(before.short_term) + 1
           newest == after.short_term[Len(after.short_term)]
       IN  /\ Len(after.short_term) < 10
           /\ newest.timestamp = memories'.clock
           /\ SubSeq(after.long_term, 1, Len(before.long_term)) = before.long_term
           /\ IF grown >= 10
              THEN /\ memories'.llm \in {"returned", "raised"}
                   /\ Len(after.long_term) = Len(before.long_term) + 1
                   /\ Len(after.short_term) = 2
                   /\ after.short_term[1] = before.short_term[Len(before.short_term)]
              ELSE /\ memories'.llm = "not called"
                   /\ after.long_term = before.long_term
                   /\ after.short_term = Append(before.short_term, newest)]_vars

\* C30 witness: two compactions have happened, the first with the model's
\* summary and the second after the model's call raised, and two memories remain
C30_Witness ==
    /\ memories.file.kind = "json"
    /\ memories.llm = "raised"
    /\ Len(memories.file.memories.long_term) = 2
    /\ memories.file.memories.long_term[1].summary = <<"summary by the model">>
    /\ memories.file.memories.long_term[2].summary # <<"summary by the model">>
    /\ Len(memories.file.memories.short_term) = 2
    /\ memories.file.memories.compaction_count = 1

====
